---- MODULE Spec2Model ----
(***************************************************************************)
(* mcp-cli: the line-framed stdio transport (StdioTransport) of the MCP    *)
(* protocol engine and the protocol client built on it                     *)
(* (StandardProtocolClient), as a state machine.                           *)
(*                                                                         *)
(* The asyncio objects the class drives are its environment: setting up a  *)
(* pipe either succeeds or raises, flushing the written line either        *)
(* completes or raises, the peer writes lines into an open exchange and    *)
(* closes its stream whenever it likes, signalling the child either works  *)
(* or raises, and the child exits whenever it likes.  writer.close() and   *)
(* process.poll() are taken not to raise.  Calls are made with arguments   *)
(* of the declared types (method: str, params: dict), so create_request    *)
(* never rejects the request it is asked to build.                         *)
(*                                                                         *)
(* Spec explores the exchanges of a transport on the host's stdio;         *)
(* ChildSpec explores the lifecycle of a transport that owns a child;      *)
(* ConcSpec lets several callers use one transport at once and cancels     *)
(* calls in their waits; ClientSpec drives the transport through the       *)
(* protocol client, against a server that answers each request.            *)
(* ValidatorSpec applies the validator (ProtocolValidator) and the codec   *)
(* (json_rpc_message) to one message drawn from small sets of members.     *)
(* SendSpec interleaves the sends of several callers with cancellations;   *)
(* StreamSpec is one caller streaming under the scheduling of asyncio.     *)
(* ContainerSpec, ConfigSpec and ProviderSpec are the collaborators of the *)
(* engine: the dependency container (Container) and the two services       *)
(* backed by JSON files (ConfigService, ProviderConfigService), each under *)
(* any sequence of calls; a save either goes through or fails.             *)
(***************************************************************************)
EXTENDS Integers, Sequences, FiniteSets, TLC

\* ------------------------------------------------------------------ bounds
\* Callers of one transport instance.  Spec drives the transport from a
\* single caller (Main), as section 5 of the design requires.
NumCallers == 2
\* The transport stops accepting new requests at this request id.
MaxId == 2
\* Saves of the provider configuration that fail.
MaxSaveFailures == 1
\* Calls of factories the container makes.
MaxCalls == 2
\* Entries in the listing a listDirectory result holds.
MaxEntries == 2
\* Lines the peer has in flight in one exchange: those the call has read
\* plus those waiting in the source.
MaxLines == 2

Callers == 1..NumCallers
Main == CHOOSE c \in Callers : \A d \in Callers : c <= d

\* ------------------------------------------------------- lines on the wire
\* A line of the source, as json.loads sees it:
\*   kind "bad"     not valid JSON (JSONDecodeError);
\*   kind "nonobj"  valid JSON that is not an object (a list, a number ...);
\*   kind "obj"     a JSON object; idt/idv is its "id" member (an integer,
\*                  the boolean true, or no member at all; a string or null
\*                  id compares like a missing one) and
\*                  partial its "partial" member.
\* The integer ids the peer uses are those of the first two requests.
\* What an object carries besides its id is read by the protocol client:
\*   body   "result" | "error" | "none": the member it has;
\*   shape  of the result: a mapping holding the list field "tools",
\*          "prompts" or "resources", a mapping without such a field
\*          ("empty_map"), or no mapping at all ("nonmap": null, a list ...);
\*          of the error: "map" (a mapping with code and message) or "nonmap";
\*   val    which list the field holds;  code  the error's code.
NoId == [idt |-> "absent", idv |-> 0]
WireIds ==
    {[idt |-> "int", idv |-> n] : n \in {1, 2}}
      \cup {[idt |-> "bool", idv |-> 1], NoId}
Partials == {"absent", "true", "false"}

\* The line of a JSON object.
Envelope(id, p, b, sh, v, cd) ==
    [kind |-> "obj", idt |-> id.idt, idv |-> id.idv, partial |-> p,
     body |-> b, shape |-> sh, val |-> v, code |-> cd]

\* A line that is no JSON object.
Junk(k) ==
    [kind |-> k, idt |-> "absent", idv |-> 0, partial |-> "absent",
     body |-> "none", shape |-> "none", val |-> 0, code |-> 0]

\* The lines of the transport's peer: what the transport looks at varies,
\* the body is a result.
Lines ==
    {Envelope(i, p, "result", "empty_map", 0, 0) : i \in WireIds, p \in Partials}
      \cup {Junk(k) : k \in {"bad", "nonobj"}}

\* JsonDecodeFails of a codec that takes every line.
JsonDecodeFailsNever(line) == FALSE

\* json.loads raises JSONDecodeError on the line.
JsonDecodeFails(line) == line.kind = "bad"

\* Evaluating a membership test, a subscript or .get on the decoded value
\* raises (TypeError / AttributeError): the value is not a mapping.
NotAMapping(line) == line.kind = "nonobj"

\* IdMismatch with the comparison forgotten: only a missing id mismatches.
IdMismatchAbsentOnly(line, request_id) ==
    line.idt = "absent"

\* `"id" not in response or response["id"] != request_id`, with Python's
\* equality: the integer n equals n, and True equals 1.
IdMismatch(line, request_id) ==
    \/ line.idt = "absent"
    \/ ~(line.idt \in {"int", "bool"} /\ line.idv = request_id)

\* IsFinal with the falsy case forgotten: only a missing member is final.
IsFinalWhenAbsent(line) == line.partial = "absent"

\* `"partial" not in response or not response["partial"]`
IsFinal(line) == line.partial = "absent" \/ line.partial = "false"

\* ------------------------------------------------------------------- state
VARIABLES
    process,     \* the transport owns a child process (self.process)
    procState,   \* "none" | "running" | "exited" | "killed"
    reader,      \* self.reader: "None" | "unattached" | "attached"
    writer,      \* self.writer is set
    request_id,  \* self.request_id
    sink,        \* ids of the request lines written to the writer
    source,      \* lines written by the peer and not yet read
    eof,         \* the peer closed its stream
    life,        \* "new" | "up" (connect returned True) | "closed" (disconnect
                 \* called while up) | "down" (disconnect called, never up since)
    pc,          \* per caller: where its current call is suspended
    op,          \* per caller: its current (or last) operation
    callLife,    \* per caller: life when the call started
    rid,         \* per caller: the local request_id of the call
    wrote,       \* per caller: request lines written by the call
    reads,       \* per caller: readline() calls made by the call
    consumed,    \* per caller: lines the call took from the source
    yielded,     \* per caller: envelopes the call yielded
    effects,     \* per caller: what a disconnect did: "close", "terminate", "kill"
    outcome,     \* per caller: "none" | "true" | "false" | "value" | "complete" |
                 \* "TransportError" | "CancelledError"
    errmsg,      \* per caller: message of the TransportError raised
    capabilities, \* client: self.capabilities, NoValue (None) or the stored result
    cpc,         \* client: where its current operation is suspended
    cop,         \* client: its current (or last) operation
    cout,        \* client: how the operation ended, and with what
    cyielded,    \* client: results call_streaming_tool has yielded
    cstate,      \* design state when the operation started: "Uninitialized" |
                 \* "Ready" | "Closed"; the code keeps no such field
    lastInit,    \* result of the latest successful initialize, NoValue if none
    sentAt,      \* number of request lines written when the operation started
    carg,        \* client: the tool name the operation was called with
    validation,  \* the latest call of the validator or codec and what it gave
    container,   \* Container: its two class-level dicts and its latest call
    serverConfig,   \* a ConfigService: self.config, its file, its latest call
    providerConfig  \* a ProviderConfigService: the same

transportVars == <<process, procState, reader, writer, request_id, sink>>
peerVars == <<source, eof>>
histVars == <<life>>
callVars == <<pc, op, callLife, rid, wrote, reads, consumed,
              yielded, effects, outcome, errmsg>>
clientVars == <<capabilities, cpc, cop, cout, cyielded, cstate, lastInit, sentAt,
                carg>>
libVars == <<validation, container, serverConfig, providerConfig>>
machineVars == <<transportVars, peerVars, histVars, callVars, clientVars>>
vars == <<machineVars, libVars>>

\* No value: None.
NoValue == [shape |-> "none", val |-> 0]

\* The client operation has not ended.
NoOutcome ==
    [kind |-> "none", type |-> "", code |-> 0, msg |-> "", val |-> NoValue,
     tool |-> ""]

\* No tool name: the operation takes none.
NoArg == ""

\* Neither the validator nor the codec has been called.
NoValidation == [fn |-> "none"]

\* Container: the interfaces resolved, and its dicts before any call.  An
\* instance is told by who made it (a registered object, or a factory) and,
\* for the product of a factory, by the number of the call that made it.
Interfaces == {"transport", "client"}
NoInstance == [by |-> "", n |-> 0]
NewContainer ==
    [instances |-> [i \in Interfaces |-> NoInstance],
     factories |-> [i \in Interfaces |-> ""],
     latest |-> [i \in Interfaces |-> ""],
     calls |-> [i \in Interfaces |-> 0],
     made |-> 0,
     last |-> [op |-> "none", interface |-> "", raised |-> "", out |-> NoInstance]]

\* ConfigService("server_config.json") with no file there: _load_config
\* gives {"mcpServers": {}}.  "" stands for a name the mapping lacks.
ServerNames == {"s1", "s2"}
NewConfigService ==
    [config |-> [n \in ServerNames |-> ""],
     file |-> [state |-> "missing", text |-> [n \in ServerNames |-> ""]],
     last |-> [op |-> "none", name |-> "", cfg |-> "", ret |-> FALSE]]

\* ProviderConfigService("providers_config.json") with no file there: the
\* default configuration of _load_config, its providers in their order.
ProviderNames == {"openai", "ollama", "custom"}
DefaultProviders ==
    [providers |-> <<"openai", "ollama">>,
     values |-> [n \in ProviderNames |-> IF n = "custom" THEN "" ELSE "v1"],
     defaultModels |-> [n \in ProviderNames |-> IF n = "custom" THEN "" ELSE "m1"],
     defaultProvider |-> "openai"]
NewProviderConfigService ==
    [config |-> DefaultProviders,
     file |-> [state |-> "missing", text |-> DefaultProviders],
     failures |-> 0,
     last |-> [op |-> "none", name |-> "", save |-> "none", default |-> ""]]

\* StdioTransport.__init__(process) and StandardProtocolClient.__init__:
\* the fields of a new transport and of a new client wrapping it.
Constructed(child) ==
    /\ process = child
    /\ procState = IF child THEN "running" ELSE "none"
    /\ reader = "None"
    /\ writer = FALSE
    /\ request_id = 0
    /\ sink = <<>>
    /\ source = <<>>
    /\ eof = FALSE
    /\ life = "new"
    /\ pc = [c \in Callers |-> "idle"]
    /\ op = [c \in Callers |-> "none"]
    /\ callLife = [c \in Callers |-> "new"]
    /\ rid = [c \in Callers |-> 0]
    /\ wrote = [c \in Callers |-> 0]
    /\ reads = [c \in Callers |-> 0]
    /\ consumed = [c \in Callers |-> <<>>]
    /\ yielded = [c \in Callers |-> <<>>]
    /\ effects = [c \in Callers |-> <<>>]
    /\ outcome = [c \in Callers |-> "none"]
    /\ errmsg = [c \in Callers |-> ""]
    /\ capabilities = NoValue
    /\ cpc = "idle"
    /\ cop = "none"
    /\ cout = NoOutcome
    /\ cyielded = <<>>
    /\ cstate = "Uninitialized"
    /\ lastInit = NoValue
    /\ sentAt = 0
    /\ carg = NoArg
    /\ validation = NoValidation
    /\ container = NewContainer
    /\ serverConfig = NewConfigService
    /\ providerConfig = NewProviderConfigService

\* A transport on the host's own stdin and stdout.
Init == Constructed(FALSE)

\* A transport that owns a child process.
InitChild == Constructed(TRUE)

\* Caller c starts operation o: the bookkeeping of its previous call is
\* dropped.
Begin(c, o) ==
    /\ pc[c] = "idle"
    /\ op' = [op EXCEPT ![c] = o]
    /\ callLife' = [callLife EXCEPT ![c] = life]

\* The call of caller c returns v.
Return(c, v) ==
    /\ pc' = [pc EXCEPT ![c] = "idle"]
    /\ outcome' = [outcome EXCEPT ![c] = v]
    /\ errmsg' = [errmsg EXCEPT ![c] = ""]

\* The call of caller c raises TransportError(msg).
Raise(c, msg) ==
    /\ pc' = [pc EXCEPT ![c] = "idle"]
    /\ outcome' = [outcome EXCEPT ![c] = "TransportError"]
    /\ errmsg' = [errmsg EXCEPT ![c] = msg]

\* The call of caller c suspends at p.
Suspend(c, p) ==
    /\ pc' = [pc EXCEPT ![c] = p]
    /\ outcome' = [outcome EXCEPT ![c] = "none"]
    /\ errmsg' = [errmsg EXCEPT ![c] = ""]

\* A fresh call record for caller c.
Fresh(c) ==
    /\ rid' = [rid EXCEPT ![c] = 0]
    /\ wrote' = [wrote EXCEPT ![c] = 0]
    /\ reads' = [reads EXCEPT ![c] = 0]
    /\ consumed' = [consumed EXCEPT ![c] = <<>>]
    /\ yielded' = [yielded EXCEPT ![c] = <<>>]
    /\ effects' = [effects EXCEPT ![c] = <<>>]

\* ----------------------------------------------------------------- connect
\* How the two pipe set-ups of connect() go.
PipeSetups == {"ok", "read_pipe_raises", "write_pipe_raises"}

\* ConnectReturns with the except branch lost: connect always reports success.
ConnectReturnsTrue(setup) == "true"

\* `return True` at the end of the try block, `return False` in the except
\* branch.
ConnectReturns(setup) == IF setup = "ok" THEN "true" ELSE "false"

\* connect(): a StreamReader is created, then the read pipe and the write
\* pipe are set up in this order; an exception of either leaves what was
\* assigned before it and returns False.
Connecting(c) ==
    /\ Begin(c, "connect")
    /\ Fresh(c)
    /\ \E setup \in PipeSetups :
         /\ \/ /\ setup = "ok"
               /\ reader' = "attached"
               /\ writer' = TRUE
               /\ life' = "up"
            \/ /\ setup = "read_pipe_raises"
               /\ reader' = "unattached"
               /\ UNCHANGED <<writer, life>>
            \/ /\ setup = "write_pipe_raises"
               /\ reader' = "attached"
               /\ UNCHANGED <<writer, life>>
         /\ Return(c, ConnectReturns(setup))
    /\ UNCHANGED <<process, procState, request_id, sink, peerVars>>

\* connect() called on the transport directly.
Connect(c) == Connecting(c) /\ UNCHANGED <<clientVars, libVars>>

\* -------------------------------------------------------------- disconnect
\* HasWriter with the test dropped: disconnect always acts.
HasWriterUnchecked == TRUE

\* `if self.writer:` - disconnect acts only on a transport that has a writer.
HasWriter == writer

\* ProcessRunning without the poll: an owned child counts as running.
ProcessOwned == process

\* `self.process and self.process.poll() is None`
ProcessRunning == process /\ procState = "running"

\* disconnect() up to its sleep: closes the writer, forgets reader and
\* writer and, when the child is still running, asks it to terminate and
\* sleeps for the grace period.  terminate() raising is logged and swallowed.
Disconnecting(c) ==
    /\ Begin(c, "disconnect")
    /\ rid' = [rid EXCEPT ![c] = 0]
    /\ wrote' = [wrote EXCEPT ![c] = 0]
    /\ reads' = [reads EXCEPT ![c] = 0]
    /\ consumed' = [consumed EXCEPT ![c] = <<>>]
    /\ yielded' = [yielded EXCEPT ![c] = <<>>]
    /\ life' = IF life = "up" THEN "closed" ELSE IF life = "new" THEN "down" ELSE life
    /\ IF HasWriter
         THEN /\ reader' = "None"
              /\ writer' = FALSE
              /\ IF ProcessRunning
                   THEN \E terminate \in {"ok", "raises"} :
                          \/ /\ terminate = "ok"
                             /\ effects' = [effects EXCEPT ![c] = <<"close", "terminate">>]
                             /\ Suspend(c, "disc_sleep")
                          \/ /\ terminate = "raises"
                             /\ effects' = [effects EXCEPT ![c] = <<"close">>]
                             /\ Return(c, "true")
                   ELSE /\ effects' = [effects EXCEPT ![c] = <<"close">>]
                        /\ Return(c, "true")
         ELSE /\ effects' = [effects EXCEPT ![c] = <<>>]
              /\ UNCHANGED <<reader, writer>>
              /\ Return(c, "true")
    /\ UNCHANGED <<process, procState, request_id, sink, peerVars>>

\* disconnect() called on the transport directly.
DisconnectBegin(c) == Disconnecting(c) /\ UNCHANGED <<clientVars, libVars>>

\* disconnect() after its sleep: the child is killed if poll() still reports
\* it running; kill() raising is logged and swallowed.
DisconnectWake(c) ==
    /\ pc[c] = "disc_sleep"
    /\ IF ProcessRunning
         THEN \E kill \in {"ok", "raises"} :
                \/ /\ kill = "ok"
                   /\ procState' = "killed"
                   /\ effects' = [effects EXCEPT ![c] = Append(@, "kill")]
                \/ /\ kill = "raises"
                   /\ UNCHANGED <<procState, effects>>
         ELSE UNCHANGED <<procState, effects>>
    /\ Return(c, "true")
    /\ UNCHANGED <<clientVars, libVars, process, reader, writer, request_id, sink,
                   peerVars, histVars, op, callLife, rid, wrote, reads,
                   consumed, yielded>>

\* ------------------------------------------------------------ send_message
\* NotConnected testing the reader alone.
NotConnectedReaderOnly == reader = "None"

\* `if not self.writer or not self.reader`
NotConnected == ~writer \/ reader = "None"

\* NextRequestId with the increment lost.
NextRequestIdSame(n) == n

\* `self.request_id += 1`
NextRequestId(n) == n + 1

\* The guard, the id allocation and the write of the request line, common
\* to send_message and send_streaming_message; the call then waits in
\* drainAt for the writer to drain.
StartExchange(c, o, drainAt) ==
    /\ Begin(c, o)
    /\ reads' = [reads EXCEPT ![c] = 0]
    /\ consumed' = [consumed EXCEPT ![c] = <<>>]
    /\ yielded' = [yielded EXCEPT ![c] = <<>>]
    /\ effects' = [effects EXCEPT ![c] = <<>>]
    /\ IF NotConnected
         THEN /\ Raise(c, "Not connected to server")
              /\ rid' = [rid EXCEPT ![c] = 0]
              /\ wrote' = [wrote EXCEPT ![c] = 0]
              /\ UNCHANGED <<request_id, sink>>
         ELSE /\ request_id < MaxId
              /\ request_id' = NextRequestId(request_id)
              /\ rid' = [rid EXCEPT ![c] = request_id']
              /\ sink' = Append(sink, request_id')
              /\ wrote' = [wrote EXCEPT ![c] = 1]
              /\ Suspend(c, drainAt)
    /\ UNCHANGED <<process, procState, reader, writer, peerVars, histVars>>

\* Another call is suspended in readline() on the empty stream: the
\* StreamReader has a waiter, and a second readline() raises RuntimeError.
ReaderBusy(c) ==
    /\ source = <<>>
    /\ ~eof
    /\ \E d \in Callers \ {c} : pc[d] \in {"send_read", "stream_read"}

\* `await self.writer.drain()`: completes, or raises and the exception is
\* wrapped in TransportError(msg).  After it the call enters readline(),
\* which raises at once when the reader already has a waiter; the
\* RuntimeError is wrapped in TransportError(msg) as well.
Drain(c, drainAt, readAt, msg) ==
    /\ pc[c] = drainAt
    /\ \E drained \in BOOLEAN :
         IF ~drained
           THEN Raise(c, msg) /\ UNCHANGED reads
           ELSE IF ReaderBusy(c)
             THEN Raise(c, msg) /\ reads' = [reads EXCEPT ![c] = @ + 1]
             ELSE Suspend(c, readAt) /\ UNCHANGED reads
    /\ UNCHANGED <<clientVars, libVars, transportVars, peerVars, histVars, op, callLife,
                   rid, wrote, consumed, yielded, effects>>

\* CanRead of a readline that the end of the stream does not wake.
CanReadLinesOnly == reader = "attached" /\ source # <<>>

\* `await self.reader.readline()` returns: a line is there, or the stream
\* is at its end.
CanRead == reader = "attached" /\ (source # <<>> \/ eof)

SendCall(c) == StartExchange(c, "send", "send_drain") /\ UNCHANGED <<clientVars, libVars>>

SendDrain(c) == Drain(c, "send_drain", "send_read", "Error sending message")

\* The single read of send_message and what it makes of the line.
SendRead(c) ==
    /\ pc[c] = "send_read"
    /\ CanRead
    /\ reads' = [reads EXCEPT ![c] = @ + 1]
    /\ IF source = <<>>
         THEN /\ Raise(c, "Connection closed by server")
              /\ UNCHANGED <<source, consumed>>
         ELSE LET line == Head(source) IN
              /\ source' = Tail(source)
              /\ consumed' = [consumed EXCEPT ![c] = Append(@, line)]
              /\ IF JsonDecodeFails(line)
                   THEN Raise(c, "Invalid JSON in response")
                   ELSE IF NotAMapping(line)
                     THEN Raise(c, "Error sending message")
                     ELSE IF IdMismatch(line, rid[c])
                       THEN Raise(c, "Response ID mismatch")
                       ELSE Return(c, "value")
    /\ UNCHANGED <<clientVars, libVars, transportVars, eof, histVars, op,
                   callLife, rid, wrote, yielded, effects>>

\* -------------------------------------------------- send_streaming_message
StreamCall(c) == StartExchange(c, "stream", "stream_drain") /\ UNCHANGED <<clientVars, libVars>>

StreamDrain(c) ==
    Drain(c, "stream_drain", "stream_read", "Error in streaming message")

\* One turn of the read loop: end of stream leaves the loop, a line that is
\* not JSON raises, a line with another id is skipped, a line with the
\* request's id is yielded.
StreamRead(c) ==
    /\ pc[c] = "stream_read"
    /\ CanRead
    /\ reads' = [reads EXCEPT ![c] = @ + 1]
    /\ IF source = <<>>
         THEN /\ Return(c, "complete")
              /\ UNCHANGED <<source, consumed, yielded>>
         ELSE LET line == Head(source) IN
              /\ source' = Tail(source)
              /\ consumed' = [consumed EXCEPT ![c] = Append(@, line)]
              /\ IF JsonDecodeFails(line)
                   THEN /\ Raise(c, "Invalid JSON in streaming response")
                        /\ UNCHANGED yielded
                   ELSE IF NotAMapping(line)
                     THEN /\ Raise(c, "Error in streaming message")
                          /\ UNCHANGED yielded
                     ELSE IF IdMismatch(line, rid[c])
                       THEN /\ Suspend(c, "stream_read")
                            /\ UNCHANGED yielded
                       ELSE /\ yielded' = [yielded EXCEPT ![c] = Append(@, line)]
                            /\ Suspend(c, "stream_yield")
    /\ UNCHANGED <<clientVars, libVars, transportVars, eof, histVars, op,
                   callLife, rid, wrote, effects>>

\* The consumer asks for the next item: the generator resumes after its
\* yield and leaves the loop if the envelope it yielded was final.
Resuming(c) ==
    /\ pc[c] = "stream_yield"
    /\ IF IsFinal(yielded[c][Len(yielded[c])])
         THEN Return(c, "complete")
         ELSE Suspend(c, "stream_read")
    /\ UNCHANGED <<transportVars, peerVars, histVars, op, callLife,
                   rid, wrote, reads, consumed, yielded, effects>>

\* The consumer of the transport's generator asks for the next item.
StreamResume(c) == Resuming(c) /\ UNCHANGED <<clientVars, libVars>>

\* ------------------------------------------------------------ cancellation
\* The task running the call is cancelled while the call waits for the
\* writer to drain or for the next line: `except asyncio.CancelledError:
\* raise` passes the cancellation on and touches no field.
Cancel(c) ==
    /\ pc[c] \in {"send_drain", "send_read", "stream_drain", "stream_read"}
    /\ pc' = [pc EXCEPT ![c] = "idle"]
    /\ outcome' = [outcome EXCEPT ![c] = "CancelledError"]
    /\ errmsg' = [errmsg EXCEPT ![c] = ""]
    /\ UNCHANGED <<clientVars, libVars, transportVars, peerVars, histVars, op, callLife,
                   rid, wrote, reads, consumed, yielded, effects>>

\* ------------------------------------------------------------- environment
\* A request has been written and its call has not ended.
ExchangeOpen(c) ==
    pc[c] \in {"send_drain", "send_read", "stream_drain", "stream_read", "stream_yield"}

\* The peer writes one more line into an open exchange; lines its call does
\* not read stay in the source for the next call.
ServerSend ==
    /\ ~eof
    /\ \E c \in Callers :
         /\ ExchangeOpen(c)
         /\ Len(source) + Len(consumed[c]) < MaxLines
    /\ \E line \in Lines : source' = Append(source, line)
    /\ UNCHANGED <<clientVars, libVars, transportVars, eof, histVars, callVars>>

\* The peer answers a request it has received: one more envelope, partial
\* or final, carrying the id of a request written so far.
ServerAnswer ==
    /\ ~eof
    /\ \E c \in Callers : ExchangeOpen(c)
    /\ \A c \in Callers : Len(source) + Len(consumed[c]) < MaxLines
    /\ \E line \in Lines :
         /\ line.kind = "obj"
         /\ line.idt = "int"
         /\ line.idv \in 1..request_id
         /\ line.partial # "false"
         /\ source' = Append(source, line)
    /\ UNCHANGED <<clientVars, libVars, transportVars, eof, histVars, callVars>>

\* The peer closes its stream.
ServerClose ==
    /\ ~eof
    /\ eof' = TRUE
    /\ UNCHANGED <<clientVars, libVars, transportVars, source, histVars, callVars>>

\* The child process exits on its own account or on SIGTERM.
ProcessExit ==
    /\ procState = "running"
    /\ procState' = "exited"
    /\ UNCHANGED <<clientVars, libVars, process, reader, writer, request_id, sink, peerVars,
                   histVars, callVars>>

\* ========================================================= protocol client
\* StandardProtocolClient over the transport.  The client is driven by one
\* task, the transport's caller Main, one operation at a time.

\* ErrorCodes
INITIALIZATION_FAILED == 1000
INVALID_TOOL == 1100
TOOL_EXECUTION_FAILED == 1101
PROMPT_NOT_FOUND == 1201
RESOURCE_NOT_FOUND == 1301

\* The list fields of a result, and the lists they hold.
Fields == {"tools", "prompts", "resources"}
PayloadVals == {1, 2}

\* Values the client stores and returns: a result member as it came, a
\* list (val 0: the empty list), a boolean, or nothing (NoValue).
Bool(b) == [shape |-> "bool", val |-> IF b THEN 1 ELSE 0]
ListVal(n) == [shape |-> "list", val |-> n]
Results ==
    {[shape |-> f, val |-> v] : f \in Fields, v \in PayloadVals}
      \cup {[shape |-> "empty_map", val |-> 0], [shape |-> "nonmap", val |-> 0]}

\* How a client operation ends.
Returned(v) ==
    [kind |-> "return", type |-> "", code |-> 0, msg |-> "", val |-> v, tool |-> NoArg]
Raised(t, cd, m) ==
    [kind |-> "raise", type |-> t, code |-> cd, msg |-> m, val |-> NoValue,
     tool |-> NoArg]

\* InvalidToolError(tool), code 1100, and ToolExecutionError(tool, message),
\* code 1101: both keep the tool name they were built with.
InvalidToolError(tool) ==
    [Raised("InvalidToolError", INVALID_TOOL, "Invalid tool") EXCEPT !.tool = tool]
ToolExecutionError(tool, m) ==
    [Raised("ToolExecutionError", TOOL_EXECUTION_FAILED, m) EXCEPT !.tool = tool]

\* `"result" in response`, `"error" in response`, `response["result"]`
HasResult(line) == line.body = "result"
HasError(line) == line.body = "error"
ResultOf(line) == [shape |-> line.shape, val |-> line.val]

\* `.get` on a value that is no mapping raises AttributeError, which no
\* handler of the client catches (only initialize, ping and shutdown catch
\* Exception).
IsMapping(line) == line.shape # "nonmap"
AttributeError == Raised("AttributeError", 0, "no attribute 'get'")

\* `response["result"].get(f, [])`
GetField(result, f) ==
    IF result.shape = f THEN ListVal(result.val) ELSE ListVal(0)

\* MCPProtocolError(error.get("message", ...), error.get("code", 0), ...)
ServerError(line) == Raised("MCPProtocolError", line.code, "server")

\* InitializeOutcome taking every response for a success.
InitializeOutcomeLax(line) ==
    IF HasResult(line) THEN Returned(ResultOf(line)) ELSE Returned(NoValue)

\* initialize, lines 68-80: what it makes of the response.  The
\* AttributeError of a malformed error member is caught by `except
\* Exception` and wrapped.
InitializeOutcome(line) ==
    IF HasResult(line)
      THEN Returned(ResultOf(line))
      ELSE IF HasError(line)
        THEN IF IsMapping(line)
               THEN Raised("InitializationError", INITIALIZATION_FAILED, "server")
               ELSE Raised("InitializationError", INITIALIZATION_FAILED, "Unexpected error")
        ELSE Raised("InitializationError", INITIALIZATION_FAILED,
                    "Invalid response from server")

\* PingOutcome answering True to whatever came back.
PingOutcomeAlways(line) == Returned(Bool(TRUE))

\* ping, line 98
PingOutcome(line) == Returned(Bool(HasResult(line)))

\* ListOutcome answering from the capabilities initialize stored.
ListOutcomeCached(f, line) ==
    IF capabilities # NoValue
      THEN Returned(GetField(capabilities, f))
      ELSE IF HasResult(line) /\ IsMapping(line)
        THEN Returned(GetField(ResultOf(line), f))
        ELSE Returned(ListVal(0))

\* get_tools, get_prompts, get_resources (f is the list field read)
ListOutcome(f, line) ==
    IF HasResult(line)
      THEN IF IsMapping(line) THEN Returned(GetField(ResultOf(line), f))
                              ELSE AttributeError
      ELSE IF HasError(line)
        THEN IF IsMapping(line) THEN ServerError(line) ELSE AttributeError
        ELSE Returned(ListVal(0))

\* CallToolOutcome without the test of the code: every error of the server
\* is a failed execution.
CallToolOutcomeUnmapped(tool, line) ==
    IF HasResult(line)
      THEN Returned(ResultOf(line))
      ELSE IF HasError(line)
        THEN IF ~IsMapping(line) THEN AttributeError
             ELSE ToolExecutionError(tool, "server")
        ELSE ToolExecutionError(tool, "Invalid response from server")

\* call_tool, lines 157-174, and the error branch of call_streaming_tool,
\* lines 211-225: what the call of tool makes of the response.
CallToolOutcome(tool, line) ==
    IF HasResult(line)
      THEN Returned(ResultOf(line))
      ELSE IF HasError(line)
        THEN IF ~IsMapping(line) THEN AttributeError
             ELSE IF line.code = INVALID_TOOL
               THEN InvalidToolError(tool)
               ELSE ToolExecutionError(tool, "server")
        ELSE ToolExecutionError(tool, "Invalid response from server")

\* get_prompt, get_resource
GetOutcome(line) ==
    IF HasResult(line)
      THEN Returned(ResultOf(line))
      ELSE IF HasError(line)
        THEN IF IsMapping(line) THEN ServerError(line) ELSE AttributeError
        ELSE Raised("MCPProtocolError", 0, "Invalid response from server")

\* The tool names of the lists a server advertises (list 1 names echo, list
\* 2 echo and add), and the names call_tool is called with: one that every
\* list has and one that none has.
ToolsOf(v) ==
    IF v.shape # "tools" THEN {}
    ELSE IF v.val = 1 THEN {"echo"} ELSE {"echo", "add"}
ToolNames == {"echo", "nope"}

\* The operations, the method each sends and the list field each reads.
ListOps == {"get_tools", "get_prompts", "get_resources"}
DataOps == ListOps \cup {"call_tool", "call_streaming_tool", "get_prompt", "get_resource"}
MethodOf(o) ==
    CASE o = "initialize" -> "initialize"
      [] o = "ping" -> "ping"
      [] o = "get_tools" -> "tools/list"
      [] o = "get_prompts" -> "prompts/list"
      [] o = "get_resources" -> "resources/list"
      [] o \in {"call_tool", "call_streaming_tool"} -> "tools/call"
      [] o = "get_prompt" -> "prompts/get"
      [] o = "get_resource" -> "resources/get"
      [] o = "shutdown" -> "shutdown"
FieldOf(o) ==
    CASE o = "get_tools" -> "tools"
      [] o = "get_prompts" -> "prompts"
      [] o = "get_resources" -> "resources"

\* `except TransportError` of operation o.
TransportFailure(o) ==
    CASE o = "initialize" ->
           Raised("InitializationError", INITIALIZATION_FAILED, "Transport error")
      [] o = "ping" -> Returned(Bool(FALSE))
      [] o \in {"call_tool", "call_streaming_tool"} ->
           ToolExecutionError(carg, "Transport error")
      [] OTHER -> Raised("MCPProtocolError", 0, "Transport error")

\* What operation o makes of the response of its round trip.
ResponseOutcome(o, line) ==
    CASE o = "initialize" -> InitializeOutcome(line)
      [] o = "ping" -> PingOutcome(line)
      [] o \in ListOps -> ListOutcome(FieldOf(o), line)
      [] o = "call_tool" -> CallToolOutcome(carg, line)
      [] OTHER -> GetOutcome(line)

\* The response send_message returned to the client.
Response == consumed[Main][Len(consumed[Main])]

\* The client starts operation o.
Started(o, a) ==
    /\ cpc = "idle"
    /\ cop' = o
    /\ carg' = a
    /\ cyielded' = <<>>
    /\ sentAt' = Len(sink)
    /\ UNCHANGED <<capabilities, cstate, lastInit, libVars>>

\* initialize() up to the return of connect(): a failed connect raises
\* InitializationError, which the handlers of lines 82-87 pass on.
Initialize ==
    /\ Started("initialize", NoArg)
    /\ Connecting(Main)
    /\ IF outcome'[Main] = "true"
         THEN cpc' = "init_send" /\ cout' = NoOutcome
         ELSE /\ cpc' = "idle"
              /\ cout' = Raised("InitializationError", INITIALIZATION_FAILED,
                                "Failed to connect to server")

\* initialize() sends its request.
InitializeSend ==
    /\ cpc = "init_send"
    /\ StartExchange(Main, "send", "send_drain")
    /\ cpc' = "wait"
    /\ UNCHANGED <<capabilities, cop, cout, cyielded, cstate, lastInit, sentAt,
                   carg, libVars>>

\* An operation of one round trip calls send_message.
RoundTrip(o, a) ==
    /\ Started(o, a)
    /\ StartExchange(Main, "send", "send_drain")
    /\ cpc' = "wait"
    /\ cout' = NoOutcome

Ping == RoundTrip("ping", NoArg)
GetTools == RoundTrip("get_tools", NoArg)
GetPrompts == RoundTrip("get_prompts", NoArg)
GetResources == RoundTrip("get_resources", NoArg)
CallTool == \E t \in ToolNames : RoundTrip("call_tool", t)
GetPrompt == RoundTrip("get_prompt", NoArg)
GetResource == RoundTrip("get_resource", NoArg)
Shutdown == RoundTrip("shutdown", NoArg)

\* StoresCapabilities for every operation that returns a value.
StoresAnyResult(o, r) == r.kind = "return"

\* `self.capabilities = response["result"]` is reached: only in initialize,
\* and only with a response that has a result.
StoresCapabilities(o, r) == o = "initialize" /\ r.kind = "return"

\* send_message has returned or raised: the operation ends.
Completed ==
    /\ cpc = "wait"
    /\ cop # "shutdown"
    /\ pc[Main] = "idle"
    /\ LET r == IF outcome[Main] = "TransportError"
                  THEN TransportFailure(cop)
                  ELSE ResponseOutcome(cop, Response)
       IN  /\ cout' = r
           /\ capabilities' = IF StoresCapabilities(cop, r) THEN r.val ELSE capabilities
           /\ IF cop = "initialize" /\ r.kind = "return"
                THEN lastInit' = r.val /\ cstate' = "Ready"
                ELSE UNCHANGED <<lastInit, cstate>>
    /\ cpc' = "idle"
    /\ UNCHANGED <<cop, cyielded, sentAt, carg, libVars,
                   transportVars, peerVars, histVars, callVars>>

\* shutdown() after its send_message: a send that raised ends it with
\* False; otherwise the transport is disconnected and it returns True.  The
\* transport of this client owns no child, so disconnect() does not sleep.
ShutdownDone ==
    /\ cpc = "wait"
    /\ cop = "shutdown"
    /\ pc[Main] = "idle"
    /\ IF outcome[Main] = "TransportError"
         THEN /\ cout' = Returned(Bool(FALSE))
              /\ UNCHANGED <<transportVars, peerVars, histVars, callVars>>
         ELSE /\ cout' = Returned(Bool(TRUE))
              /\ Disconnecting(Main)
    /\ cpc' = "idle"
    /\ cstate' = "Closed"
    /\ UNCHANGED <<capabilities, cop, cyielded, lastInit, sentAt, carg, libVars>>

\* call_streaming_tool(): the first item is asked for, the body starts and
\* send_streaming_message writes the request.
CallStreamingTool ==
    /\ \E t \in ToolNames : Started("call_streaming_tool", t)
    /\ StartExchange(Main, "stream", "stream_drain")
    /\ cpc' = "stream"
    /\ cout' = NoOutcome

\* The transport's generator is closed at its yield (GeneratorExit), which
\* none of its handlers catches.
Closing(c) ==
    /\ pc' = [pc EXCEPT ![c] = "idle"]
    /\ outcome' = [outcome EXCEPT ![c] = "GeneratorExit"]
    /\ errmsg' = [errmsg EXCEPT ![c] = ""]
    /\ UNCHANGED <<transportVars, peerVars, histVars, op, callLife,
                   rid, wrote, reads, consumed, yielded, effects>>

\* StreamRaises skipping every envelope that has no result.
StreamRaisesNever(line) == FALSE

\* call_streaming_tool, lines 211-212: `elif "error" in response`, reached
\* when the envelope has no result.
StreamRaises(line) == ~HasResult(line) /\ HasError(line)

\* call_streaming_tool() receives an envelope from the transport: a result
\* is yielded and, when the consumer asks for the next item, the transport
\* is resumed; an envelope with neither member is skipped; an error raises
\* and the abandoned generator of the transport is closed.
StreamItem ==
    /\ cpc = "stream"
    /\ pc[Main] = "stream_yield"
    /\ LET line == yielded[Main][Len(yielded[Main])] IN
         IF ~StreamRaises(line)
           THEN /\ cyielded' = IF HasResult(line)
                                 THEN Append(cyielded, ResultOf(line))
                                 ELSE cyielded
                /\ Resuming(Main)
                /\ UNCHANGED <<cpc, cout>>
           ELSE /\ cout' = CallToolOutcome(carg, line)
                /\ cpc' = "idle"
                /\ Closing(Main)
                /\ UNCHANGED cyielded
    /\ UNCHANGED <<capabilities, cop, cstate, lastInit, sentAt, carg, libVars>>

\* The transport's generator has ended: normally, or with a TransportError.
StreamEnd ==
    /\ cpc = "stream"
    /\ pc[Main] = "idle"
    /\ cout' = IF outcome[Main] = "TransportError"
                 THEN TransportFailure(cop)
                 ELSE Returned(NoValue)
    /\ cpc' = "idle"
    /\ UNCHANGED <<capabilities, cop, cyielded, cstate, lastInit, sentAt,
                   carg, libVars, transportVars, peerVars, histVars, callVars>>

\* The error codes a server answers method m with: the code of an unknown
\* tool and a not-found code.
ServerCodes(m) ==
    IF m = "resources/get" THEN {INVALID_TOOL, RESOURCE_NOT_FOUND}
                           ELSE {INVALID_TOOL, PROMPT_NOT_FOUND}

\* The results a server answers method m with: capabilities naming its
\* tools to initialize, any result to a list request, a plain mapping to
\* the operations that hand the result on as it is.
ResultsFor(m) ==
    IF m = "initialize" THEN {r \in Results : r.shape = "tools"}
    ELSE IF m \in {"tools/list", "prompts/list", "resources/list"} THEN Results
    ELSE {[shape |-> "empty_map", val |-> 0]}

\* The lines a server answers request r of method m with: an envelope
\* with the request's id and a result, an error or neither, a line that is
\* not JSON, or an envelope without id; to a tool call also partial
\* envelopes with a result or with neither member.
Replies(r, m) ==
    LET id == [idt |-> "int", idv |-> r] IN
      {Envelope(id, "absent", "result", res.shape, res.val, 0) : res \in ResultsFor(m)}
        \cup {Envelope(id, "absent", "error", "map", 0, cd) : cd \in ServerCodes(m)}
        \cup {Envelope(id, "absent", "error", "nonmap", 0, 0),
              Envelope(id, "absent", "none", "none", 0, 0),
              Junk("bad"),
              Envelope(NoId, "absent", "result", "empty_map", 0, 0)}
        \cup (IF m = "tools/call"
                THEN {Envelope(id, "true", "result", "empty_map", 0, 0),
                      Envelope(id, "true", "none", "none", 0, 0)}
                ELSE {})

\* The server answers the open exchange of the client: one line to a
\* request, up to MaxLines to a streaming request.
ServerReply ==
    /\ ~eof
    /\ ExchangeOpen(Main)
    /\ Len(source) + Len(consumed[Main])
         < (IF op[Main] = "stream" THEN MaxLines ELSE 1)
    /\ \E line \in Replies(rid[Main], MethodOf(cop)) : source' = Append(source, line)
    /\ UNCHANGED <<clientVars, libVars, transportVars, eof, histVars, callVars>>

\* ====================================================== validator and codec
\* JSON values as Python holds them: a type and a printed value.  JAbsent
\* is not a value: it marks a key the mapping does not have.
JAbsent == [type |-> "absent", val |-> ""]
JStr(s) == [type |-> "str", val |-> s]
JInt(s) == [type |-> "int", val |-> s]
JFloat(s) == [type |-> "float", val |-> s]
JBool(s) == [type |-> "bool", val |-> s]
JNull == [type |-> "NoneType", val |-> "null"]
JDict == [type |-> "dict", val |-> "{}"]

\* isinstance(v, t) for the types the validator asks about.  bool is a
\* subclass of int: isinstance(True, int) holds.
IsInstance(v, t) == v.type = t \/ (t = "int" /\ v.type = "bool")

\* `key in message`
Has(message, key) == message[key] # JAbsent

\* A message: the members the validator looks at.  code and message are
\* the members of an error that is a mapping.
Message(v, m, p, i, r, e, c, t, pt) ==
    [jsonrpc |-> v, method |-> m, params |-> p, id |-> i, result |-> r,
     error |-> e, code |-> c, message |-> t, partial |-> pt]

\* The members messages are drawn from.
Versions == {JAbsent, JStr("2.0"), JStr("1.0"), JFloat("2.0")}
Methods == {JAbsent, JStr("ping"), JInt("123")}
ParamsVals == {JAbsent, JDict, JStr("invalid")}
IdVals == {JAbsent, JStr("a"), JInt("1"), JBool("true"), JNull, JFloat("1.5")}
ResultVals == {JAbsent, JDict, JNull}
CodeVals == {JAbsent, JInt("404"), JStr("404"), JBool("true")}
MessageVals == {JAbsent, JStr("Not found"), JInt("123")}
PartialVals == {JAbsent, JBool("true"), JStr("invalid"), JInt("1")}

\* Request-shaped and response-shaped messages.
Requests ==
    {Message(v, m, p, i, JAbsent, JAbsent, JAbsent, JAbsent, JAbsent) :
       v \in Versions, m \in Methods, p \in ParamsVals, i \in IdVals}
Responses ==
    {Message(v, JAbsent, JAbsent, i, r, JStr("invalid"), JAbsent, JAbsent, pt) :
       v \in Versions, i \in IdVals, r \in ResultVals, pt \in PartialVals}
    \cup
    {Message(v, JAbsent, JAbsent, i, r, JAbsent, JAbsent, JAbsent, pt) :
       v \in Versions, i \in IdVals, r \in ResultVals, pt \in PartialVals}
    \cup
    {Message(v, JAbsent, JAbsent, i, r, JDict, c, t, pt) :
       v \in Versions, i \in IdVals, r \in ResultVals, c \in CodeVals,
       t \in MessageVals, pt \in PartialVals}

\* The validator returns None for a message it accepts.
None == "None"

\* ProtocolValidator.validate_request
validate_request(request) ==
    IF ~Has(request, "jsonrpc") THEN "Missing required field: 'jsonrpc'"
    ELSE IF request.jsonrpc # JStr("2.0") THEN "Invalid 'jsonrpc' value: must be '2.0'"
    ELSE IF ~Has(request, "method") THEN "Missing required field: 'method'"
    ELSE IF ~IsInstance(request.method, "str") THEN "Invalid 'method' type: must be a string"
    ELSE IF ~Has(request, "params") THEN "Missing required field: 'params'"
    ELSE IF ~IsInstance(request.params, "dict") THEN "Invalid 'params' type: must be an object"
    ELSE IF ~Has(request, "id") THEN "Missing required field: 'id'"
    ELSE IF ~(IsInstance(request.id, "str") \/ IsInstance(request.id, "int"))
      THEN "Invalid 'id' type: must be a string or number"
    ELSE None

\* validate_response, lines 78-91: the error member
validate_error(response) ==
    IF ~IsInstance(response.error, "dict") THEN "Invalid 'error' type: must be an object"
    ELSE IF ~Has(response, "code") THEN "Missing required field in error: 'code'"
    ELSE IF ~IsInstance(response.code, "int") THEN "Invalid error 'code' type: must be a number"
    ELSE IF ~Has(response, "message") THEN "Missing required field in error: 'message'"
    ELSE IF ~IsInstance(response.message, "str") THEN "Invalid error 'message' type: must be a string"
    ELSE None

\* validate_response, lines 93-97: the partial member
validate_partial(response) ==
    IF Has(response, "partial") /\ ~IsInstance(response.partial, "bool")
      THEN "Invalid 'partial' type: must be a boolean"
      ELSE None

\* validate_response letting through a response with both members.
validate_response_both(response) ==
    IF ~Has(response, "jsonrpc") THEN "Missing required field: 'jsonrpc'"
    ELSE IF response.jsonrpc # JStr("2.0") THEN "Invalid 'jsonrpc' value: must be '2.0'"
    ELSE IF ~Has(response, "id") THEN "Missing required field: 'id'"
    ELSE IF ~(IsInstance(response.id, "str") \/ IsInstance(response.id, "int")) /\ response.id # JNull
      THEN "Invalid 'id' type: must be a string, number, or null"
    ELSE IF ~Has(response, "result") /\ ~Has(response, "error")
      THEN "Missing required field: either 'result' or 'error' must be present"
    ELSE IF Has(response, "error") /\ validate_error(response) # None
      THEN validate_error(response)
    ELSE validate_partial(response)

\* ProtocolValidator.validate_response
validate_response(response) ==
    IF ~Has(response, "jsonrpc") THEN "Missing required field: 'jsonrpc'"
    ELSE IF response.jsonrpc # JStr("2.0") THEN "Invalid 'jsonrpc' value: must be '2.0'"
    ELSE IF ~Has(response, "id") THEN "Missing required field: 'id'"
    ELSE IF ~(IsInstance(response.id, "str") \/ IsInstance(response.id, "int")) /\ response.id # JNull
      THEN "Invalid 'id' type: must be a string, number, or null"
    ELSE IF ~Has(response, "result") /\ ~Has(response, "error")
      THEN "Missing required field: either 'result' or 'error' must be present"
    ELSE IF Has(response, "error") /\ Has(response, "result")
      THEN "Invalid response: cannot have both 'result' and 'error'"
    ELSE IF Has(response, "error") /\ validate_error(response) # None
      THEN validate_error(response)
    ELSE validate_partial(response)

\* json_rpc_message.validate_message
validate_message(message) ==
    IF Has(message, "method")
      THEN validate_request(message)
      ELSE validate_response(message)

\* create_request returning whatever envelope it built.
create_request_unchecked(method, params, req_id) ==
    LET request == Message(JStr("2.0"), method, params, req_id,
                           JAbsent, JAbsent, JAbsent, JAbsent, JAbsent)
    IN  [raised |-> "", ret |-> request]

\* json_rpc_message.create_request: the envelope, or the ValueError of an
\* envelope its own validation refuses.
create_request(method, params, req_id) ==
    LET request == Message(JStr("2.0"), method, params, req_id,
                           JAbsent, JAbsent, JAbsent, JAbsent, JAbsent)
        error == validate_request(request)
    IN  IF error # None
          THEN [raised |-> "ValueError", ret |-> error]
          ELSE [raised |-> "", ret |-> request]

\* A list.
JList == [type |-> "list", val |-> "[]"]

\* The results of a tool: the members the validator looks at; items are
\* the entries when the entries member is a list, at most MaxEntries of
\* them: a string, or a mapping with or without a name and with or without
\* a type (kind).
ToolResults ==
    LET EntryVals ==
          {[type |-> "str", val |-> "x", name |-> JAbsent, kind |-> JAbsent]}
            \cup {[type |-> "dict", val |-> "{}", name |-> nm, kind |-> k] :
                     nm \in {JAbsent, JStr("f")},
                     k \in {JAbsent, JStr("file"), JStr("directory"), JStr("File")}}
        lists == UNION {[1..n -> EntryVals] : n \in 0..MaxEntries}
    IN  {[content |-> c, success |-> sc, entries |-> e, items |-> it,
          rows |-> r, tables |-> t] :
           c \in {JAbsent, JStr("text")},
           sc \in {JAbsent, JBool("true"), JStr("not_a_boolean")},
           e \in {JList}, it \in lists,
           r \in {JAbsent, JList, JStr("not_an_array")},
           t \in {JAbsent, JList}}
        \cup
        {[content |-> c, success |-> sc, entries |-> e, items |-> <<>>,
          rows |-> r, tables |-> t] :
           c \in {JAbsent, JStr("text")},
           sc \in {JAbsent, JBool("true"), JStr("not_a_boolean")},
           e \in {JAbsent, JStr("not_an_array")},
           r \in {JAbsent, JList, JStr("not_an_array")},
           t \in {JAbsent, JList}}

\* The tools validate_tool_result knows.
BuiltInTools == {"readFile", "writeFile", "listDirectory", "query", "getTables"}

\* validate_entry taking any type an entry has.
validate_entry_any_type(entry) ==
    IF ~IsInstance(entry, "dict")
      THEN "Invalid result for listDirectory: each entry must be an object"
    ELSE IF ~Has(entry, "name")
      THEN "Invalid result for listDirectory: each entry must have a 'name'"
    ELSE IF ~Has(entry, "kind")
      THEN "Invalid result for listDirectory: each entry must have a 'type'"
    ELSE None

\* validate_tool_result, lines 129-136: the body of the loop over entries
validate_entry(entry) ==
    IF ~IsInstance(entry, "dict")
      THEN "Invalid result for listDirectory: each entry must be an object"
    ELSE IF ~Has(entry, "name")
      THEN "Invalid result for listDirectory: each entry must have a 'name'"
    ELSE IF ~Has(entry, "kind")
      THEN "Invalid result for listDirectory: each entry must have a 'type'"
    ELSE IF entry.kind \notin {JStr("file"), JStr("directory")}
      THEN "Invalid result for listDirectory: 'type' must be 'file' or 'directory'"
    ELSE None

\* validate_tool_result, line 128: the loop returns at the first entry
\* that is refused.
RECURSIVE validate_entries(_)
validate_entries(items) ==
    IF items = <<>> THEN None
    ELSE IF validate_entry(Head(items)) # None THEN validate_entry(Head(items))
    ELSE validate_entries(Tail(items))

\* ProtocolValidator.validate_tool_result
validate_tool_result(tool_name, result) ==
    CASE tool_name = "readFile" ->
           IF ~Has(result, "content")
             THEN "Invalid result for readFile: missing required field 'content'"
             ELSE None
      [] tool_name = "writeFile" ->
           IF ~Has(result, "success")
             THEN "Invalid result for writeFile: missing required field 'success'"
           ELSE IF ~IsInstance(result.success, "bool")
             THEN "Invalid result for writeFile: 'success' must be a boolean"
           ELSE None
      [] tool_name = "listDirectory" ->
           IF ~Has(result, "entries")
             THEN "Invalid result for listDirectory: missing required field 'entries'"
           ELSE IF ~IsInstance(result.entries, "list")
             THEN "Invalid result for listDirectory: 'entries' must be an array"
           ELSE validate_entries(result.items)
      [] tool_name = "query" ->
           IF ~Has(result, "rows")
             THEN "Invalid result for query: missing required field 'rows'"
           ELSE IF ~IsInstance(result.rows, "list")
             THEN "Invalid result for query: 'rows' must be an array"
           ELSE None
      [] tool_name = "getTables" ->
           IF ~Has(result, "tables")
             THEN "Invalid result for getTables: missing required field 'tables'"
             ELSE None
      [] OTHER -> None

\* One call of the validator or of the codec, on any message.
ValidateRequest ==
    /\ validation = NoValidation
    /\ \E request \in Requests :
         validation' = [fn |-> "validate_request", arg |-> request,
                        ret |-> validate_request(request)]
    /\ UNCHANGED <<machineVars, container, serverConfig, providerConfig>>

ValidateResponse ==
    /\ validation = NoValidation
    /\ \E response \in Responses :
         validation' = [fn |-> "validate_response", arg |-> response,
                        ret |-> validate_response(response)]
    /\ UNCHANGED <<machineVars, container, serverConfig, providerConfig>>

ValidateMessage ==
    /\ validation = NoValidation
    /\ \E message \in Requests \cup Responses :
         validation' = [fn |-> "validate_message", arg |-> message,
                        ret |-> validate_message(message)]
    /\ UNCHANGED <<machineVars, container, serverConfig, providerConfig>>

ValidateToolResult ==
    /\ validation = NoValidation
    /\ \E tool_name \in BuiltInTools \cup {"echo"}, result \in ToolResults :
         validation' = [fn |-> "validate_tool_result", tool |-> tool_name,
                        arg |-> result,
                        ret |-> validate_tool_result(tool_name, result)]
    /\ UNCHANGED <<machineVars, container, serverConfig, providerConfig>>

CreateRequest ==
    /\ validation = NoValidation
    /\ \E m \in Methods \ {JAbsent}, p \in ParamsVals \ {JAbsent},
          i \in IdVals \ {JAbsent} :
         validation' = [fn |-> "create_request", method |-> m, params |-> p,
                        id |-> i, out |-> create_request(m, p, i)]
    /\ UNCHANGED <<machineVars, container, serverConfig, providerConfig>>

\* ================================================================ container
\* Container.register(interface, implementation, factory): a factory, when
\* one is given, goes to _factories and the implementation is dropped;
\* otherwise the implementation (None when none is given) goes to
\* _instances.  "" is no factory.  latest and calls are history: what was
\* registered last for the interface, and how often the factory registered
\* last for it has been called.
Register ==
    \E interface \in Interfaces, implementation \in {"None", "a", "b"},
       factory \in {"", "f1", "f2"} :
      /\ container' =
           [container EXCEPT
              !.factories[interface] = IF factory # "" THEN factory ELSE @,
              !.instances[interface] =
                 IF factory # "" THEN @ ELSE [by |-> implementation, n |-> 0],
              !.latest[interface] = IF factory # "" THEN factory ELSE implementation,
              !.calls[interface] = IF factory # "" THEN 0 ELSE @,
              !.last = [op |-> "register", interface |-> interface,
                        raised |-> "", out |-> NoInstance]]
      /\ UNCHANGED <<machineVars, validation, serverConfig, providerConfig>>

\* Container.resolve(interface): the factory of the interface is called
\* when _instances has nothing for it, and its product is stored; what
\* _instances has is returned; KeyError when neither dict has the key.
Resolve ==
    \E interface \in Interfaces :
      LET factory == container.factories[interface]
          stored == container.instances[interface]
          called == factory # "" /\ stored = NoInstance
          product == [by |-> factory, n |-> container.made + 1]
          out == IF called THEN product ELSE stored
      IN  /\ called => container.made < MaxCalls
          /\ container' =
               [container EXCEPT
                  !.instances[interface] = out,
                  !.made = IF called THEN @ + 1 ELSE @,
                  !.calls[interface] = IF called THEN @ + 1 ELSE @,
                  !.last = [op |-> "resolve", interface |-> interface,
                            raised |-> IF out = NoInstance THEN "KeyError" ELSE "",
                            out |-> out]]
          /\ UNCHANGED <<machineVars, validation, serverConfig, providerConfig>>

\* Container.clear()
Clear ==
    /\ container' =
         [NewContainer EXCEPT
            !.made = container.made,
            !.last = [op |-> "clear", interface |-> "", raised |-> "",
                      out |-> NoInstance]]
    /\ UNCHANGED <<machineVars, validation, serverConfig, providerConfig>>

\* =========================================================== server config
\* A server configuration is named by the command it holds: "a" and "b" are
\* dicts json can write, "bad" holds a value json cannot write (a set, an
\* object), "" is no entry.
\* json.dump of one server configuration.
json_dump(cfg) ==
    CASE cfg = "a" -> "{\"command\": \"a\"}"
      [] cfg = "b" -> "{\"command\": \"b\"}"
      [] OTHER -> ""

\* json.load of the text of one server configuration.
json_load(text) ==
    CASE text = "{\"command\": \"a\"}" -> "a"
      [] text = "{\"command\": \"b\"}" -> "b"
      [] OTHER -> ""

\* ConfigService.save_config on the configuration config, the file being
\* file: open(config_file, 'w') raises OSError when io says so and the file
\* stays as it was; json.dump raises TypeError on a value it cannot write,
\* leaving a truncated file; both are caught and False is returned.
save_config_unchecked(config, file, io) ==
    IF io = "OSError"
    THEN [file |-> file, ret |-> TRUE]
    ELSE IF \E n \in ServerNames : config[n] = "bad"
         THEN [file |-> [state |-> "partial", text |-> [n \in ServerNames |-> ""]],
               ret |-> TRUE]
         ELSE [file |-> [state |-> "text",
                         text |-> [n \in ServerNames |-> json_dump(config[n])]],
               ret |-> TRUE]
save_config(config, file, io) ==
    IF io = "OSError"
    THEN [file |-> file, ret |-> FALSE]
    ELSE IF \E n \in ServerNames : config[n] = "bad"
         THEN [file |-> [state |-> "partial", text |-> [n \in ServerNames |-> ""]],
               ret |-> FALSE]
         ELSE [file |-> [state |-> "text",
                         text |-> [n \in ServerNames |-> json_dump(config[n])]],
               ret |-> TRUE]

\* ConfigService.get_server_config(server_name)
get_server_config(server_name) ==
    IF serverConfig.config[server_name] = "" THEN None
    ELSE serverConfig.config[server_name]

\* ConfigService.get_all_servers(): the names and their configurations.
get_all_servers ==
    {<<n, serverConfig.config[n]>> : n \in {m \in ServerNames : serverConfig.config[m] # ""}}

\* ConfigService.add_server(name, config)
AddServer ==
    \E name \in ServerNames, cfg \in {"a", "b", "bad"}, io \in {"ok", "OSError"} :
      LET config == [serverConfig.config EXCEPT ![name] = cfg]
          saved == save_config(config, serverConfig.file, io)
      IN  /\ serverConfig' =
               [config |-> config, file |-> saved.file,
                last |-> [op |-> "add_server", name |-> name, cfg |-> cfg,
                          ret |-> saved.ret]]
          /\ UNCHANGED <<machineVars, validation, container, providerConfig>>

\* ConfigService.remove_server(name)
RemoveServer ==
    \E name \in ServerNames, io \in {"ok", "OSError"} :
      LET config == [serverConfig.config EXCEPT ![name] = ""]
          saved == IF serverConfig.config[name] # ""
                   THEN save_config(config, serverConfig.file, io)
                   ELSE [file |-> serverConfig.file, ret |-> FALSE]
      IN  /\ serverConfig' =
               [config |-> config, file |-> saved.file,
                last |-> [op |-> "remove_server", name |-> name, cfg |-> "",
                          ret |-> saved.ret]]
          /\ UNCHANGED <<machineVars, validation, container, providerConfig>>

\* ConfigService.update_server(name, config)
UpdateServer ==
    \E name \in ServerNames, cfg \in {"a", "b", "bad"}, io \in {"ok", "OSError"} :
      LET known == serverConfig.config[name] # ""
          config == IF known THEN [serverConfig.config EXCEPT ![name] = cfg]
                    ELSE serverConfig.config
          saved == IF known THEN save_config(config, serverConfig.file, io)
                   ELSE [file |-> serverConfig.file, ret |-> FALSE]
      IN  /\ serverConfig' =
               [config |-> config, file |-> saved.file,
                last |-> [op |-> "update_server", name |-> name, cfg |-> cfg,
                          ret |-> saved.ret]]
          /\ UNCHANGED <<machineVars, validation, container, providerConfig>>

\* ========================================================= provider config
\* The provider configuration holds the names of the providers in the order
\* of the dict, the configuration of each ("" for none), the default model
\* of each ("" for none) and the default provider.
\* ProviderConfigService.save_config on the configuration config: the file
\* is rewritten from it and True returned, unless open raises OSError,
\* which leaves the file and returns False.  save is "ok" or "OSError",
\* or "none" when the method returned False before saving.
provider_save_config(config, save) ==
    [config |-> config,
     file |-> IF save = "ok" THEN [state |-> "text", text |-> config]
              ELSE providerConfig.file,
     failures |-> providerConfig.failures + (IF save = "OSError" THEN 1 ELSE 0)]

\* What a method of the service leaves: the configuration, the file, and
\* the record of the call (default is the default provider before it).
\* known says that the method goes on to change and save; the save meets
\* one of the outcomes of opening the file.
ProviderCall(method, name, known, config) ==
    \E save \in IF ~known THEN {"none"}
                ELSE IF providerConfig.failures < MaxSaveFailures
                     THEN {"ok", "OSError"} ELSE {"ok"} :
      /\ providerConfig' =
           LET saved == provider_save_config(
                          IF known THEN config ELSE providerConfig.config, save)
           IN  [config |-> saved.config, file |-> saved.file,
                failures |-> saved.failures,
                last |-> [op |-> method, name |-> name, save |-> save,
                          default |-> providerConfig.config.defaultProvider]]
      /\ UNCHANGED <<machineVars, validation, container, serverConfig>>

\* ProviderConfigService.add_provider(name, config)
AddProvider ==
    \E name \in ProviderNames, cfg \in {"v1"} :
      LET c == providerConfig.config
      IN  ProviderCall("add_provider", name, TRUE,
            [c EXCEPT !.providers = IF c.values[name] = "" THEN Append(@, name) ELSE @,
                      !.values[name] = cfg])

\* The default provider after a provider was removed, the remaining ones
\* being providers.
default_after_remove_fixed(providers) ==
    "openai"
default_after_remove(providers) ==
    IF providers # <<>> THEN providers[1] ELSE "openai"

\* ProviderConfigService.remove_provider(name)
RemoveProvider ==
    \E name \in ProviderNames :
      LET c == providerConfig.config
          providers == SelectSeq(c.providers, LAMBDA n : n # name)
      IN  ProviderCall("remove_provider", name, c.values[name] # "",
            [c EXCEPT !.providers = providers,
                      !.values[name] = "",
                      !.defaultModels[name] = "",
                      !.defaultProvider =
                         IF @ = name THEN default_after_remove(providers) ELSE @])

\* ProviderConfigService.update_provider(name, config)
UpdateProvider ==
    \E name \in ProviderNames, cfg \in {"v1"} :
      LET c == providerConfig.config
      IN  ProviderCall("update_provider", name, c.values[name] # "",
            [c EXCEPT !.values[name] = cfg])

\* ProviderConfigService.set_default_provider(name)
SetDefaultProvider ==
    \E name \in ProviderNames :
      LET c == providerConfig.config
      IN  ProviderCall("set_default_provider", name, c.values[name] # "",
            [c EXCEPT !.defaultProvider = name])

\* ProviderConfigService.set_default_model(provider, model)
SetDefaultModel ==
    \E provider \in ProviderNames, model \in {"m1"} :
      LET c == providerConfig.config
      IN  ProviderCall("set_default_model", provider, c.values[provider] # "",
            [c EXCEPT !.defaultModels[provider] = model])

\* ================================================================== claims
\* The line is a JSON object whose id member is the integer r.
CarriesId(line, r) == line.kind = "obj" /\ line.idt = "int" /\ line.idv = r

\* The line is valid JSON.
WellFormed(line) == line.kind # "bad"

\* s is n >= 0 envelopes with partial = true and then one envelope without
\* partial or with partial = false, all carrying id r.
CompleteStream(s, r) ==
    /\ Len(s) >= 1
    /\ \A i \in 1..(Len(s) - 1) : CarriesId(s[i], r) /\ s[i].partial = "true"
    /\ CarriesId(s[Len(s)], r)
    /\ s[Len(s)].partial \in {"absent", "false"}

\* C1: a send whose response line carries an id other than the id allocated
\* to the request, or no id, raises TransportError and returns no value.
C1_MismatchRaises ==
    \A c \in Callers :
        (/\ op[c] = "send"
         /\ pc[c] = "idle"
         /\ consumed[c] # <<>>
         /\ ~CarriesId(consumed[c][1], rid[c]))
        => outcome[c] = "TransportError"

\* C2: when the lines a send_streaming call has read are n >= 0 partial
\* envelopes followed by one final envelope, all with the request's id, the
\* call has yielded exactly these lines in order, has read nothing after
\* the final one, and ends by completing normally.
C2_StreamYieldsAll ==
    \A c \in Callers :
        op[c] = "stream" =>
            /\ (\A i \in 1..Len(consumed[c]) :
                    CarriesId(consumed[c][i], rid[c]) /\ consumed[c][i].partial = "true")
               => yielded[c] = consumed[c]
            /\ \A k \in 1..Len(consumed[c]) :
                 CompleteStream(SubSeq(consumed[c], 1, k), rid[c]) =>
                    /\ k = Len(consumed[c])
                    /\ reads[c] = k
                    /\ yielded[c] = consumed[c]
                    /\ pc[c] \in {"stream_yield", "idle"}
                    /\ pc[c] = "idle" => outcome[c] = "complete"

C2_Witness ==
    /\ op[Main] = "stream"
    /\ pc[Main] = "idle"
    /\ outcome[Main] = "complete"
    /\ Len(yielded[Main]) = 2
    /\ CompleteStream(consumed[Main], rid[Main])

\* C3: a send_streaming call that meets the end of the stream before it has
\* received a final envelope with the request's id stops with a
\* TransportError and never completes normally.
C3_EofRaises ==
    \A c \in Callers :
        (/\ op[c] = "stream"
         /\ pc[c] = "idle"
         /\ reads[c] > Len(consumed[c])
         /\ \A i \in 1..Len(consumed[c]) :
               ~(CarriesId(consumed[c][i], rid[c]) /\ consumed[c][i].partial # "true"))
        => outcome[c] = "TransportError"

\* C4: in send_streaming every well-formed line whose id is not the
\* request's id is discarded: the envelopes yielded are exactly the lines
\* read that carry the request's id, and after such a line, final or not,
\* the call goes on reading.
C4_ForeignDiscarded ==
    \A c \in Callers :
        op[c] = "stream" =>
            LET Mine(line) == CarriesId(line, rid[c])
                n == Len(consumed[c])
            IN  /\ yielded[c] = SelectSeq(consumed[c], Mine)
                /\ (/\ n > 0
                    /\ reads[c] = n
                    /\ WellFormed(consumed[c][n])
                    /\ ~Mine(consumed[c][n]))
                   => pc[c] = "stream_read"

C6_OneWriteOneRead ==
    \A c \in Callers :
        (op[c] = "send" /\ pc[c] = "idle" /\ callLife[c] = "up") =>
            /\ wrote[c] = 1
            /\ reads[c] = 1
            /\ Len(consumed[c]) <= 1

\* C7: send and send_streaming called while the connection is not
\* established (never connected, connect returned False, or disconnected)
\* raise TransportError at once, write no line and read no line.
C7_NotConnectedFails ==
    \A c \in Callers :
        (op[c] \in {"send", "stream"} /\ callLife[c] # "up") =>
            /\ pc[c] = "idle"
            /\ outcome[c] = "TransportError"
            /\ wrote[c] = 0
            /\ reads[c] = 0
            /\ rid[c] = 0

\* A call on a disconnected transport fails although a line waits in the source.
C7_Witness ==
    /\ op[Main] = "stream"
    /\ callLife[Main] = "closed"
    /\ reader = "attached"
    /\ ~writer
    /\ outcome[Main] = "TransportError"
    /\ source # <<>>

\* A step in which caller c calls disconnect.
DisconnectCalled(c) ==
    /\ pc[c] = "idle"
    /\ op'[c] = "disconnect"
    /\ callVars' # callVars

\* C8: disconnect never raises, and a disconnect that follows an earlier one
\* with no successful connect in between is a no-op: it returns True at
\* once, closes nothing, signals no process and leaves the transport as it
\* was.
C8_DisconnectIdempotent ==
    /\ [](\A c \in Callers :
            op[c] = "disconnect" =>
              /\ outcome[c] \in {"none", "true", "false"}
              /\ callLife[c] \in {"down", "closed"} =>
                    (pc[c] = "idle" /\ outcome[c] = "true" /\ effects[c] = <<>>))
    /\ [][\A c \in Callers :
            (DisconnectCalled(c) /\ life \in {"down", "closed"}) =>
                UNCHANGED <<transportVars, peerVars, histVars>>]_vars

C8_Witness ==
    /\ process
    /\ op[Main] = "disconnect"
    /\ callLife[Main] = "closed"
    /\ pc[Main] = "idle"
    /\ outcome[Main] = "true"

\* C9: after disconnect has returned, an owned child process is no longer
\* running, in whatever state disconnect was called.
C9_ChildNeverLeaked ==
    \A c \in Callers :
        (op[c] = "disconnect" /\ pc[c] = "idle" /\ process) => procState # "running"

\* C10: once disconnect has been performed on a connected transport, nothing
\* makes the transport connected again.
C10_DisconnectedIsTerminal ==
    [][life = "closed" => ~(writer' /\ reader' # "None")]_vars

\* C11: a disconnect of a connected transport whose child is running closes
\* the writer first and then asks the child to terminate; the child is
\* killed only by a disconnect that has closed, asked for termination and
\* slept, and only if the child is still running then: a child that has
\* exited is never killed.
C11_KillOnlyAfterGrace ==
    /\ [](\A c \in Callers :
            op[c] = "disconnect" =>
              /\ \E n \in 0..3 : effects[c] = SubSeq(<<"close", "terminate", "kill">>, 1, n)
              /\ pc[c] = "disc_sleep" => effects[c] = <<"close", "terminate">>)
    /\ [][/\ \A c \in Callers :
              (DisconnectCalled(c) /\ life = "up" /\ process /\ procState = "running") =>
                 /\ effects'[c][1] = "close"
                 /\ ~writer'
                 /\ \/ pc'[c] = "disc_sleep" /\ effects'[c] = <<"close", "terminate">>
                    \/ pc'[c] = "idle" /\ effects'[c] = <<"close">>
                 /\ procState' = procState
          /\ procState' = "killed" =>
                /\ procState \in {"running", "killed"}
                /\ procState = "running" =>
                      \E c \in Callers :
                        /\ pc[c] = "disc_sleep"
                        /\ effects[c] = <<"close", "terminate">>
                        /\ effects'[c] = <<"close", "terminate", "kill">>
          /\ procState = "exited" => procState' = "exited"]_vars

C11_Witness ==
    /\ op[Main] = "disconnect"
    /\ callLife[Main] = "up"
    /\ pc[Main] = "idle"
    /\ effects[Main] = <<"close", "terminate", "kill">>
    /\ procState = "killed"

\* C12: connect ends by returning True or False, never by raising; it
\* returns False when a pipe set-up failed, and when it has returned True
\* the reader is attached and the writer is set.
C12_ConnectReturnsBool ==
    \A c \in Callers :
        (op[c] = "connect" /\ pc[c] = "idle") =>
            /\ outcome[c] \in {"true", "false"}
            /\ reader = "unattached" => outcome[c] = "false"
            /\ outcome[c] = "true" => (writer /\ reader = "attached")

C12_Witness ==
    /\ op[Main] = "connect"
    /\ pc[Main] = "idle"
    /\ outcome[Main] = "false"
    /\ reader = "attached"
    /\ ~writer

\* C13: at most one request is outstanding at a time (written, its exchange
\* neither answered nor failed), also when two callers use the transport
\* concurrently.
C13_OneOutstanding ==
    Cardinality({c \in Callers : ExchangeOpen(c)}) <= 1

\* A step in which caller c calls send_message or send_streaming_message.
SendCalled(c) ==
    /\ pc[c] = "idle"
    /\ op'[c] \in {"send", "stream"}
    /\ callVars' # callVars

\* C14: once a send or send_streaming has been cancelled in one of its two
\* waits, every later send or send_streaming on the transport fails at once
\* and writes nothing.
C14_CancelledUnusable ==
    [][\A c \in Callers :
         (SendCalled(c) /\ \E d \in Callers : outcome[d] = "CancelledError") =>
            /\ pc'[c] = "idle"
            /\ outcome'[c] = "TransportError"
            /\ sink' = sink]_vars

\* C15: a data operation started while the client is not Ready (no
\* successful initialize yet, or shutdown called) writes nothing on the
\* transport and ends by raising.
C15_DataOpsNeedReady ==
    (cop \in DataOps /\ cstate # "Ready") =>
        /\ Len(sink) = sentAt
        /\ cpc = "idle" => cout.kind = "raise"

\* C16: initialize ends by returning the result of the response, which is
\* then the stored capabilities, or by raising InitializationError and no
\* other error: "Failed to connect to server" after a failed connect,
\* "Transport error" after a TransportError of the transport, and another
\* message after an error envelope of the server; when it raises, the
\* stored capabilities are those of the latest successful initialize.
C16_InitializeOutcomes ==
    (cop = "initialize" /\ cpc = "idle") =>
        /\ cout.kind \in {"return", "raise"}
        /\ cout.kind = "return" =>
              /\ op[Main] = "send" /\ outcome[Main] = "value"
              /\ HasResult(Response)
              /\ cout.val = ResultOf(Response)
              /\ capabilities = cout.val
        /\ cout.kind = "raise" =>
              /\ cout.type = "InitializationError"
              /\ capabilities = lastInit
        /\ (op[Main] = "connect" /\ outcome[Main] = "false") =>
              (cout.kind = "raise" /\ cout.msg = "Failed to connect to server")
        /\ (op[Main] = "send" /\ outcome[Main] = "TransportError") =>
              (cout.kind = "raise" /\ cout.msg = "Transport error")
        /\ (op[Main] = "send" /\ outcome[Main] = "value" /\ HasResult(Response)) =>
              cout.kind = "return"
        /\ (op[Main] = "send" /\ outcome[Main] = "value" /\ ~HasResult(Response)) =>
              /\ cout.kind = "raise"
              /\ cout.msg \notin {"Transport error", "Failed to connect to server"}
              /\ (HasError(Response) /\ IsMapping(Response)) => cout.msg = "server"

\* A second initialize is refused by the server and the capabilities of
\* the first stay.
C16_Witness ==
    /\ cop = "initialize"
    /\ cpc = "idle"
    /\ cout.kind = "raise"
    /\ cout.msg = "server"
    /\ capabilities # NoValue

\* C17: the stored capabilities are at all times the result of the latest
\* successful initialize, and unset while there was none.
C17_CapabilitiesFrame == capabilities = lastInit

C17_Witness ==
    /\ cop = "get_tools"
    /\ cpc = "idle"
    /\ cout.kind = "return"
    /\ capabilities = [shape |-> "tools", val |-> 1]
    /\ cout.val = ListVal(2)

\* C18: ping ends by returning a boolean, never by raising, and the
\* boolean is True exactly when send_message returned a response that has
\* a result.
C18_PingNeverRaises ==
    (cop = "ping" /\ cpc = "idle") =>
        /\ cout.kind = "return"
        /\ cout.val \in {Bool(TRUE), Bool(FALSE)}
        /\ cout.val = Bool(TRUE) <=> (outcome[Main] = "value" /\ HasResult(Response))

C18_Witness ==
    /\ cop = "ping"
    /\ cpc = "idle"
    /\ cout = Returned(Bool(FALSE))
    /\ outcome[Main] = "value"
    /\ HasError(Response)

\* C19: get_tools, get_prompts and get_resources call send_message once;
\* when the response has a result they return the list its field tools,
\* prompts or resources holds, or the empty list when the result has no
\* such field; when the response is an error envelope they raise
\* MCPProtocolError with the code and message of the error.
C19_ListRoundTrip ==
    (cop \in ListOps /\ cpc = "idle") =>
        /\ op[Main] = "send"
        /\ Len(sink) <= sentAt + 1
        /\ (outcome[Main] = "value" /\ HasResult(Response)) =>
              cout = Returned(IF Response.shape = FieldOf(cop)
                                THEN ListVal(Response.val)
                                ELSE ListVal(0))
        /\ (outcome[Main] = "value" /\ ~HasResult(Response) /\ HasError(Response)) =>
              /\ cout.kind = "raise"
              /\ cout.type = "MCPProtocolError"
              /\ IsMapping(Response) => (cout.code = Response.code /\ cout.msg = "server")

\* C20: a get_tools of a client that has initialized writes one new
\* request, whose id is larger than every id written before, and what it
\* returns is the tools list of the response to that request, whatever
\* initialize stored.
C20_NoCaching ==
    (cop = "get_tools" /\ cstate = "Ready") =>
        /\ wrote[Main] = 1
        /\ Len(sink) = sentAt + 1
        /\ sink[Len(sink)] = rid[Main]
        /\ \A i \in 1..sentAt : sink[i] < rid[Main]
        /\ (cpc = "idle" /\ cout.kind = "return") =>
              /\ outcome[Main] = "value"
              /\ cout.val = (IF HasResult(Response) /\ Response.shape = "tools"
                               THEN ListVal(Response.val)
                               ELSE ListVal(0))

C20_Witness ==
    /\ cop = "get_tools"
    /\ cstate = "Ready"
    /\ cpc = "idle"
    /\ capabilities = [shape |-> "tools", val |-> 2]
    /\ cout = Returned(ListVal(1))

\* call_tool has ended on a response that send_message returned.
CallToolAnswered ==
    /\ cop = "call_tool"
    /\ cpc = "idle"
    /\ outcome[Main] = "value"

\* C21: call_tool returns the result of a response that has one; on an
\* error envelope with code 1100 it raises InvalidToolError, and on an
\* error envelope with any other code ToolExecutionError, which carries the
\* name of the tool and the message of the server.
C21_CallToolOutcomes ==
    CallToolAnswered =>
      /\ HasResult(Response) => cout = Returned(ResultOf(Response))
      /\ (~HasResult(Response) /\ HasError(Response) /\ IsMapping(Response)) =>
            IF Response.code = INVALID_TOOL
              THEN /\ cout.kind = "raise"
                   /\ cout.type = "InvalidToolError"
                   /\ cout.tool = carg
              ELSE /\ cout.kind = "raise"
                   /\ cout.type = "ToolExecutionError"
                   /\ cout.tool = carg
                   /\ cout.msg = "server"

\* call_tool of a tool raised InvalidToolError on the server's error 1100.
C21_Witness ==
    /\ CallToolAnswered
    /\ HasError(Response)
    /\ Response.code = INVALID_TOOL
    /\ cout = InvalidToolError("echo")

\* C22: call_tool with a tool name that the capabilities returned by
\* initialize do not list raises InvalidToolError and writes no request.
C22_UnknownToolNoRoundTrip ==
    (/\ cop = "call_tool"
     /\ capabilities # NoValue
     /\ carg \notin ToolsOf(capabilities)) =>
      /\ Len(sink) = sentAt
      /\ cpc = "idle"
      /\ cout = InvalidToolError(carg)

\* The results of the envelopes of a sequence that have one, in order.
ResultsIn(envelopes) ==
    LET chunks == SelectSeq(envelopes, HasResult)
    IN  [i \in 1..Len(chunks) |-> ResultOf(chunks[i])]

\* The transport has handed call_streaming_tool its i-th envelope, an
\* error envelope with a code, and the client has looked at it.
StreamErrorAt(i) ==
    /\ cop = "call_streaming_tool"
    /\ i \in 1..Len(yielded[Main])
    /\ ~HasResult(yielded[Main][i])
    /\ HasError(yielded[Main][i])
    /\ IsMapping(yielded[Main][i])
    /\ ~(i = Len(yielded[Main]) /\ cpc = "stream" /\ pc[Main] = "stream_yield")

\* C23: an error envelope that reaches call_streaming_tool after k results
\* ends the stream at once with InvalidToolError (code 1100) or
\* ToolExecutionError (any other code); the caller has been given exactly
\* the k results that preceded it, in order, and the transport is asked
\* for nothing after it.
C23_StreamErrorAborts ==
    \A i \in 1..MaxLines + 1 :
      StreamErrorAt(i) =>
        /\ i = Len(yielded[Main])
        /\ cpc = "idle"
        /\ pc[Main] = "idle"
        /\ outcome[Main] = "GeneratorExit"
        /\ cout = IF yielded[Main][i].code = INVALID_TOOL
                    THEN InvalidToolError(carg)
                    ELSE ToolExecutionError(carg, "server")
        /\ cyielded = ResultsIn(SubSeq(yielded[Main], 1, i - 1))

\* A stream that had given one result was ended by the server's error.
C23_Witness ==
    /\ StreamErrorAt(2)
    /\ Len(cyielded) = 1
    /\ cout = ToolExecutionError("nope", "server")

\* Operation o has ended on an error envelope of the server with code cd.
EndedOnError(o, cd) ==
    /\ cop = o
    /\ cpc = "idle"
    /\ outcome[Main] = "value"
    /\ ~HasResult(Response)
    /\ HasError(Response)
    /\ IsMapping(Response)
    /\ Response.code = cd

\* C24: get_prompt reports the server's error 1201, and get_resource the
\* server's error 1301, as a not-found error of its own kind, which is not
\* the generic protocol error.
C24_NotFoundKinds ==
    /\ EndedOnError("get_prompt", PROMPT_NOT_FOUND) =>
          cout.kind = "raise" /\ cout.type = "PromptNotFound"
    /\ EndedOnError("get_resource", RESOURCE_NOT_FOUND) =>
          cout.kind = "raise" /\ cout.type = "ResourceNotFound"

\* C25: shutdown never raises and always tears down: it sends the shutdown
\* request and then calls disconnect whether or not the sending succeeded,
\* and reports the outcome as a boolean.
C25_ShutdownTearsDown ==
    (cop = "shutdown" /\ cpc = "idle") =>
      /\ cout \in {Returned(Bool(TRUE)), Returned(Bool(FALSE))}
      /\ Len(sink) = sentAt + 1 \/ outcome[Main] = "TransportError"
      /\ op[Main] = "disconnect"

\* The least number of a set of rule numbers, 0 for the empty set.
First(rules) ==
    IF rules = {} THEN 0 ELSE CHOOSE n \in rules : \A k \in rules : n <= k

\* The rules of a request in their order, on JSON types (a boolean is no
\* integer), and the message of each.
RequestRule(request, n) ==
    CASE n = 1 -> Has(request, "jsonrpc")
      [] n = 2 -> request.jsonrpc = JStr("2.0")
      [] n = 3 -> Has(request, "method")
      [] n = 4 -> request.method.type = "str"
      [] n = 5 -> Has(request, "params")
      [] n = 6 -> request.params.type = "dict"
      [] n = 7 -> Has(request, "id")
      [] n = 8 -> request.id.type \in {"str", "int"}
RequestRuleMessage(n) ==
    CASE n = 0 -> None
      [] n = 1 -> "Missing required field: 'jsonrpc'"
      [] n = 2 -> "Invalid 'jsonrpc' value: must be '2.0'"
      [] n = 3 -> "Missing required field: 'method'"
      [] n = 4 -> "Invalid 'method' type: must be a string"
      [] n = 5 -> "Missing required field: 'params'"
      [] n = 6 -> "Invalid 'params' type: must be an object"
      [] n = 7 -> "Missing required field: 'id'"
      [] n = 8 -> "Invalid 'id' type: must be a string or number"

\* C26: validate_request evaluates its rules in the order jsonrpc present,
\* jsonrpc equal to "2.0", method present, method a string, params present,
\* params a mapping, id present, id a string or an integer; it returns the
\* message of the first rule violated, and no error exactly when none is.
C26_RequestRuleOrder ==
    validation.fn = "validate_request" =>
      validation.ret =
        RequestRuleMessage(First({n \in 1..8 : ~RequestRule(validation.arg, n)}))

\* C27: validate_request rejects every otherwise valid request whose id is
\* neither a string nor a number, a boolean id among them, with the message
\* "Invalid 'id' type: must be a string or number".
C27_BooleanIdRejected ==
    (/\ validation.fn = "validate_request"
     /\ \A n \in 1..7 : RequestRule(validation.arg, n)
     /\ validation.arg.id.type \notin {"str", "int", "float"}) =>
      validation.ret = "Invalid 'id' type: must be a string or number"

\* The rules of a response in their order, on JSON types, and the message
\* of each.
ResponseRule(response, n) ==
    CASE n = 1 -> Has(response, "jsonrpc")
      [] n = 2 -> response.jsonrpc = JStr("2.0")
      [] n = 3 -> Has(response, "id")
      [] n = 4 -> response.id.type \in {"str", "int", "NoneType"}
      [] n = 5 -> Has(response, "result") \/ Has(response, "error")
      [] n = 6 -> ~(Has(response, "result") /\ Has(response, "error"))
      [] n = 7 -> Has(response, "error") => response.error.type = "dict"
      [] n = 8 -> Has(response, "error") => Has(response, "code")
      [] n = 9 -> Has(response, "error") => response.code.type = "int"
      [] n = 10 -> Has(response, "error") => Has(response, "message")
      [] n = 11 -> Has(response, "error") => response.message.type = "str"
      [] n = 12 -> Has(response, "partial") => response.partial.type = "bool"
ResponseRuleMessage(n) ==
    CASE n = 0 -> None
      [] n = 1 -> "Missing required field: 'jsonrpc'"
      [] n = 2 -> "Invalid 'jsonrpc' value: must be '2.0'"
      [] n = 3 -> "Missing required field: 'id'"
      [] n = 4 -> "Invalid 'id' type: must be a string, number, or null"
      [] n = 5 -> "Missing required field: either 'result' or 'error' must be present"
      [] n = 6 -> "Invalid response: cannot have both 'result' and 'error'"
      [] n = 7 -> "Invalid 'error' type: must be an object"
      [] n = 8 -> "Missing required field in error: 'code'"
      [] n = 9 -> "Invalid error 'code' type: must be a number"
      [] n = 10 -> "Missing required field in error: 'message'"
      [] n = 11 -> "Invalid error 'message' type: must be a string"
      [] n = 12 -> "Invalid 'partial' type: must be a boolean"

\* C28: validate_response evaluates its rules in the order version tag, id
\* present and a string, an integer or null, one of result and error
\* present, not both, error a mapping with an integer code and a string
\* message (code first), partial a boolean when present; it returns the
\* message of the first rule violated, and no error exactly when none is.
C28_ResponseRuleOrder ==
    validation.fn = "validate_response" =>
      validation.ret =
        ResponseRuleMessage(First({n \in 1..12 : ~ResponseRule(validation.arg, n)}))

\* C29: validate_response, and validate_message on a message without a
\* method, return an error for every response that has both result and
\* error and for every response that has neither, whatever else it holds.
C29_ExactlyOneOfResultError ==
    (/\ \/ validation.fn = "validate_response"
        \/ validation.fn = "validate_message" /\ ~Has(validation.arg, "method")
     /\ Has(validation.arg, "result") = Has(validation.arg, "error")) =>
      validation.ret # None

\* validate_message refused a response, sound but for having both members,
\* for having both.
C29_Witness ==
    /\ validation.fn = "validate_message"
    /\ Has(validation.arg, "result")
    /\ validation.arg.code = JInt("404")
    /\ validation.arg.message = JStr("Not found")
    /\ validation.ret = "Invalid response: cannot have both 'result' and 'error'"

EntryRule(entry, n) ==
    CASE n = 1 -> entry.type = "dict"
      [] n = 2 -> Has(entry, "name")
      [] n = 3 -> Has(entry, "kind")
      [] n = 4 -> entry.kind \in {JStr("file"), JStr("directory")}
EntryRuleMessage(n) ==
    CASE n = 1 -> "Invalid result for listDirectory: each entry must be an object"
      [] n = 2 -> "Invalid result for listDirectory: each entry must have a 'name'"
      [] n = 3 -> "Invalid result for listDirectory: each entry must have a 'type'"
      [] n = 4 -> "Invalid result for listDirectory: 'type' must be 'file' or 'directory'"

\* C31: validate_tool_result returns no error for any result of a tool it
\* does not know; for listDirectory it returns an error unless entries is a
\* list whose every entry is a mapping with a name and a type that is
\* "file" or "directory", and for a list it reports the first rule violated
\* by the first entry that violates one.
C31_ToolResultRules ==
    validation.fn = "validate_tool_result" =>
      LET result == validation.arg
          bad == {i \in 1..Len(result.items) :
                    \E n \in 1..4 : ~EntryRule(result.items[i], n)}
          rule == First({n \in 1..4 : ~EntryRule(result.items[First(bad)], n)})
      IN  /\ validation.tool \notin BuiltInTools => validation.ret = None
          /\ validation.tool = "listDirectory" =>
                /\ validation.ret = None <=> (result.entries = JList /\ bad = {})
                /\ (result.entries = JList /\ bad # {}) =>
                      validation.ret = EntryRuleMessage(rule)

\* A listing whose first entry is sound and whose second has the type
\* "File" was refused for that type.
C31_Witness ==
    /\ validation.fn = "validate_tool_result"
    /\ validation.tool = "listDirectory"
    /\ Len(validation.arg.items) = 2
    /\ validation.arg.items[1].kind = JStr("directory")
    /\ validation.arg.items[2].kind = JStr("File")
    /\ validation.ret =
         "Invalid result for listDirectory: 'type' must be 'file' or 'directory'"

\* The interface of the latest call of the container has a factory as its
\* most recent registration.
FactoryLatest ==
    /\ container.last.interface \in Interfaces
    /\ container.latest[container.last.interface] \in {"f1", "f2"}

\* C32: a factory registered in the container is not called at
\* registration; it is called on the first resolve of its interface and at
\* most once; every resolve of the interface returns the instance that call
\* produced.
C32_FactoryCalledOnce ==
    /\ \A i \in Interfaces : container.calls[i] <= 1
    /\ (container.last.op = "register" /\ FactoryLatest) =>
          container.calls[container.last.interface] = 0
    /\ (container.last.op = "resolve" /\ FactoryLatest) =>
          /\ container.last.raised = ""
          /\ container.calls[container.last.interface] = 1
          /\ container.last.out.by = container.latest[container.last.interface]

\* C33: registering an interface again overrides the earlier registration:
\* a resolve returns what was registered last for the interface, the
\* instance itself or the product of the factory registered last.
C33_LatestRegistrationWins ==
    (/\ container.last.op = "resolve"
     /\ container.latest[container.last.interface] # "") =>
      /\ container.last.raised = ""
      /\ container.last.out.by = container.latest[container.last.interface]
      /\ container.last.out = container.instances[container.last.interface]

\* What reading the configuration file back gives.
FileConfig == [n \in ServerNames |-> json_load(serverConfig.file.text[n])]

\* C34: whenever add_server, remove_server or update_server of the
\* ConfigService returns True, the change is visible through
\* get_server_config and get_all_servers and the JSON file holds the
\* configuration held in memory.
C34_SavedConfigMatchesFile ==
    LET last == serverConfig.last
    IN  (last.op \in {"add_server", "remove_server", "update_server"} /\ last.ret) =>
          /\ serverConfig.file.state = "text"
          /\ FileConfig = serverConfig.config
          /\ last.op \in {"add_server", "update_server"} =>
                /\ get_server_config(last.name) = last.cfg
                /\ <<last.name, last.cfg>> \in get_all_servers
          /\ last.op = "remove_server" =>
                /\ get_server_config(last.name) = None
                /\ \A e \in get_all_servers : e[1] # last.name

\* An update of one server to b returned True while the other server holds
\* a, and the file reads back as the configuration in memory.
C34_Witness ==
    /\ serverConfig.last.op = "update_server"
    /\ serverConfig.last.ret
    /\ serverConfig.last.cfg = "b"
    /\ \E n \in ServerNames : n # serverConfig.last.name /\ serverConfig.config[n] = "a"
    /\ FileConfig = serverConfig.config

EndsStream(line, r) ==
    ~WellFormed(line) \/ (CarriesId(line, r) /\ line.partial # "true")

\* A line the read loop of the stream of request r passes: a partial
\* envelope with the id r, or an envelope with another id or none.
KeepsStream(line, r) ==
    /\ line.kind = "obj"
    /\ \/ CarriesId(line, r) /\ line.partial = "true"
       \/ line.idt = "absent"
       \/ line.idt = "int" /\ line.idv # r

\* The stream of Main has written its request and reads from a reader the
\* source feeds, and the source holds a line that ends it or is at its end.
EndDelivered ==
    /\ op[Main] = "stream"
    /\ pc[Main] \in {"stream_drain", "stream_read", "stream_yield"}
    /\ reader = "attached"
    /\ eof \/ \E i \in 1..Len(source) : EndsStream(source[i], rid[Main])

\* The stream of Main has read lines, all of which its loop passes, and has
\* not met the end of the source.
OnlyKeptLines ==
    /\ op[Main] = "stream"
    /\ reads[Main] >= 1
    /\ reads[Main] = Len(consumed[Main])
    /\ \A i \in 1..Len(consumed[Main]) : KeepsStream(consumed[Main][i], rid[Main])

\* C37: send_streaming ends once the source delivers an envelope with the
\* request's id that is not partial, a line that is not JSON, or its end
\* (the loop being scheduled and its consumer asking for the items); as
\* long as it has read only partial envelopes and envelopes with other
\* ids it has not ended: nothing else, no timeout, ends it.
C37_StreamEndsOnlyOnEnd ==
    /\ EndDelivered ~> (pc[Main] = "idle")
    /\ [](OnlyKeptLines => pc[Main] \in {"stream_read", "stream_yield"})

\* The stream has ended on a final envelope behind a partial one.
C37_Witness ==
    /\ op[Main] = "stream"
    /\ pc[Main] = "idle"
    /\ outcome[Main] = "complete"
    /\ Len(consumed[Main]) = 2
    /\ KeepsStream(consumed[Main][1], rid[Main])
    /\ EndsStream(consumed[Main][2], rid[Main])
    /\ reads[Main] = 2

\* C38: in send_streaming a line that is not valid JSON ends the call with
\* TransportError('Invalid JSON in streaming response'): it is the last
\* line the call reads, the envelopes with the request's id read before it
\* are the ones yielded, and nothing is yielded for it; an envelope with
\* another id or none does not end the call, which goes on reading.
C38_MalformedLineAborts ==
    \A c \in Callers :
      op[c] = "stream" =>
        LET n == Len(consumed[c])
            Mine(line) == CarriesId(line, rid[c])
            Other(line) ==
                /\ line.kind = "obj"
                /\ line.idt = "absent" \/ (line.idt = "int" /\ line.idv # rid[c])
        IN  /\ \A k \in 1..n :
                 ~WellFormed(consumed[c][k]) =>
                   /\ k = n
                   /\ reads[c] = n
                   /\ pc[c] = "idle"
                   /\ outcome[c] = "TransportError"
                   /\ errmsg[c] = "Invalid JSON in streaming response"
                   /\ SelectSeq(yielded[c], Mine)
                        = SelectSeq(SubSeq(consumed[c], 1, n - 1), Mine)
                   /\ \A i \in 1..Len(yielded[c]) :
                        \E j \in 1..(n - 1) : consumed[c][j] = yielded[c][i]
            /\ (n > 0 /\ reads[c] = n /\ Other(consumed[c][n])) =>
                 /\ pc[c] = "stream_read"
                 /\ \A i \in 1..Len(yielded[c]) : yielded[c][i] # consumed[c][n]

\* A stream yielded one partial envelope and was then aborted by a line
\* that is not JSON.
C38_Witness ==
    /\ op[Main] = "stream"
    /\ outcome[Main] = "TransportError"
    /\ Len(consumed[Main]) = 2
    /\ CarriesId(consumed[Main][1], rid[Main])
    /\ ~WellFormed(consumed[Main][2])
    /\ yielded[Main] = <<consumed[Main][1]>>

\* C39: every error call_tool or call_streaming_tool raises is an
\* InvalidToolError (code 1100) or a ToolExecutionError (code 1101), and a
\* TransportError of the transport surfaces as ToolExecutionError.
C39_ToolErrorsClassified ==
    (/\ cop \in {"call_tool", "call_streaming_tool"}
     /\ cpc = "idle"
     /\ cout.kind = "raise") =>
      /\ \/ cout.type = "InvalidToolError" /\ cout.code = INVALID_TOOL
         \/ cout.type = "ToolExecutionError" /\ cout.code = TOOL_EXECUTION_FAILED
      /\ outcome[Main] = "TransportError" =>
            cout = ToolExecutionError(carg, "Transport error")

\* The names of the providers that are configured.
Configured == {providerConfig.config.providers[k] :
                 k \in 1..Len(providerConfig.config.providers)}

\* C35: remove_provider of a configured provider removes its default
\* model; when it was the default provider and others remain, the first of
\* the remaining ones becomes the default provider; when it was not, the
\* default provider stays; the save that did not fail leaves the file
\* holding this configuration.
C35_RemoveProviderDefault ==
    LET last == providerConfig.last
        c == providerConfig.config
    IN  (last.op = "remove_provider" /\ last.save # "none") =>
          /\ last.name \notin Configured
          /\ c.defaultModels[last.name] = ""
          /\ (last.default = last.name /\ c.providers # <<>>) =>
                c.defaultProvider = Head(c.providers)
          /\ last.default # last.name => c.defaultProvider = last.default
          /\ last.save = "ok" =>
                /\ providerConfig.file.state = "text"
                /\ providerConfig.file.text = c

\* The default provider openai was removed with custom and ollama
\* remaining in this order: custom is the default provider, also in the file.
C35_Witness ==
    /\ providerConfig.last.op = "remove_provider"
    /\ providerConfig.last.save = "ok"
    /\ providerConfig.last.name = "openai"
    /\ providerConfig.last.default = "openai"
    /\ providerConfig.config.providers = <<"custom", "ollama">>
    /\ providerConfig.config.defaultProvider = "custom"
    /\ providerConfig.file.text.defaultProvider = "custom"

\* C40: the default provider names a configured provider whenever a
\* provider is configured.
C40_DefaultProviderConfigured ==
    Configured # {} => providerConfig.config.defaultProvider \in Configured

\* ---------------------------------------------------------- specifications
\* Spec: the exchanges of a transport on the host's stdio with its peer.
\* One caller drives the transport, one call at a time.
Next ==
    \/ Connect(Main)
    \/ DisconnectBegin(Main)
    \/ SendCall(Main)
    \/ SendDrain(Main)
    \/ SendRead(Main)
    \/ StreamCall(Main)
    \/ StreamDrain(Main)
    \/ StreamRead(Main)
    \/ StreamResume(Main)
    \/ ServerSend
    \/ ServerClose

Spec == Init /\ [][Next]_vars

\* ChildSpec: the lifecycle of a transport that owns a child process.  The
\* child answers no request: it keeps its output open or closes it, and
\* runs or exits.
NextChild ==
    \/ Connect(Main)
    \/ DisconnectBegin(Main)
    \/ DisconnectWake(Main)
    \/ SendCall(Main)
    \/ SendDrain(Main)
    \/ SendRead(Main)
    \/ StreamCall(Main)
    \/ StreamDrain(Main)
    \/ StreamRead(Main)
    \/ ServerClose
    \/ ProcessExit

ChildSpec == InitChild /\ [][NextChild]_vars

\* ConcSpec: the callers of one transport on the host's stdio start calls
\* while other calls are suspended, and calls are cancelled in their waits.
NextConc ==
    \/ (life = "new" /\ Connect(Main))
    \/ \E c \in Callers :
         \/ SendCall(c)
         \/ SendDrain(c)
         \/ SendRead(c)
         \/ StreamCall(c)
         \/ StreamDrain(c)
         \/ StreamRead(c)
         \/ StreamResume(c)
         \/ Cancel(c)
    \/ ServerAnswer
    \/ ServerClose

ConcSpec == Init /\ [][NextConc]_vars

\* SendSpec: send_message calls of several callers on one connected
\* transport, interleaved step by step, with cancellations; the server
\* answers any request written so far, also one whose call is gone.
NextSend ==
    \/ (life = "new" /\ Connect(Main))
    \/ \E c \in Callers :
         \/ SendCall(c)
         \/ SendDrain(c)
         \/ SendRead(c)
         \/ Cancel(c)
    \/ ServerAnswer
    \/ ServerClose

SendSpec == Init /\ [][NextSend]_vars

\* StreamSpec: send_streaming_message calls of one caller against any
\* peer, with the scheduling of asyncio: a streaming call that can take its
\* next step (the drain has completed, readline has a line or the end of
\* the stream, the consumer iterating with `async for` asks for the next
\* item) takes it.
NextStream ==
    \/ Connect(Main)
    \/ StreamCall(Main)
    \/ StreamDrain(Main)
    \/ StreamRead(Main)
    \/ StreamResume(Main)
    \/ ServerSend
    \/ ServerClose

StreamSpec ==
    /\ Init /\ [][NextStream]_vars
    /\ WF_vars(StreamDrain(Main))
    /\ WF_vars(StreamRead(Main))
    /\ WF_vars(StreamResume(Main))

\* ClientSpec: a protocol client over a transport on the host's stdio; the
\* client alone drives the transport, one operation at a time.
NextClient ==
    \/ Initialize
    \/ InitializeSend
    \/ Ping
    \/ GetTools
    \/ GetPrompts
    \/ GetResources
    \/ CallTool
    \/ GetPrompt
    \/ GetResource
    \/ Shutdown
    \/ CallStreamingTool
    \/ SendDrain(Main)
    \/ SendRead(Main)
    \/ StreamDrain(Main)
    \/ StreamRead(Main)
    \/ Completed
    \/ ShutdownDone
    \/ StreamItem
    \/ StreamEnd
    \/ ServerReply
    \/ ServerClose

ClientSpec == Init /\ [][NextClient]_vars

\* ValidatorSpec: one call of the validator or of the codec on a message
\* drawn from the alphabets above.
NextValidator ==
    \/ ValidateRequest
    \/ ValidateResponse
    \/ ValidateMessage
    \/ ValidateToolResult
    \/ CreateRequest

ValidatorSpec == Init /\ [][NextValidator]_vars

\* ContainerSpec: any sequence of calls of the container.
NextContainer ==
    \/ Register
    \/ Resolve
    \/ Clear

ContainerSpec == Init /\ [][NextContainer]_vars

\* ConfigSpec: any sequence of changes of the server configuration.
NextConfig ==
    \/ AddServer
    \/ RemoveServer
    \/ UpdateServer

ConfigSpec == Init /\ [][NextConfig]_vars

\* ProviderSpec: any sequence of changes of the provider configuration.
NextProvider ==
    \/ AddProvider
    \/ RemoveProvider
    \/ UpdateProvider
    \/ SetDefaultProvider
    \/ SetDefaultModel

ProviderSpec == Init /\ [][NextProvider]_vars

====
